---------------------------- MODULE Spec2Model ----------------------------
(***************************************************************************)
(* Model of the query pipeline of the AI-Agent-Demo service:               *)
(*   validateQueryInput / containsHarmfulContent  (src/utils/validation.ts)*)
(*   getOptimizedConfig                        (src/utils/openaiConfig.ts) *)
(*   QueryService.processQuery / getQueryType  (src/services/queryService) *)
(*   NLWebService: ingestContent, ask, search, handleMCP, getHealth        *)
(*                                            (src/services/nlwebService)  *)
(*                                                                         *)
(* Spec is the query pipeline over the index as constructed; IndexSpec is  *)
(* the content index service, with the query pipeline over the grown index.*)
(*                                                                         *)
(* JavaScript strings are TLA+ strings; a character is a string of length  *)
(* one, read with SubSeq.  Fractional numbers (temperature, topP, the      *)
(* penalties) are kept in hundredths: 0.7 is 70, -0.1 is -10.              *)
(***************************************************************************)
EXTENDS Integers, Sequences, FiniteSets, TLC

\* ------------------------------------------------------------------------
\* Bounds of the model
\* ------------------------------------------------------------------------
\* number of vocabulary chunks concatenated into a generated string
MaxChunks == 3
\* number of chunks of the questions handed to processQuery
MaxQueryChunks == 2
\* how far below and above the length limit the long questions reach
LengthSlack == 1

\* ------------------------------------------------------------------------
\* Strings
\* ------------------------------------------------------------------------
Ch(s, i) == SubSeq(s, i, i)

\* ECMAScript white space that the model's alphabet contains
WhiteSpace == {" ", "\t", "\n", "\r"}

\* the regular-expression class \w
WordChars ==
  {"a","b","c","d","e","f","g","h","i","j","k","l","m","n","o","p","q","r",
   "s","t","u","v","w","x","y","z",
   "A","B","C","D","E","F","G","H","I","J","K","L","M","N","O","P","Q","R",
   "S","T","U","V","W","X","Y","Z",
   "0","1","2","3","4","5","6","7","8","9","_"}

UpperToLower ==
  ("A" :> "a") @@ ("B" :> "b") @@ ("C" :> "c") @@ ("D" :> "d") @@
  ("E" :> "e") @@ ("F" :> "f") @@ ("G" :> "g") @@ ("H" :> "h") @@
  ("I" :> "i") @@ ("J" :> "j") @@ ("K" :> "k") @@ ("L" :> "l") @@
  ("M" :> "m") @@ ("N" :> "n") @@ ("O" :> "o") @@ ("P" :> "p") @@
  ("Q" :> "q") @@ ("R" :> "r") @@ ("S" :> "s") @@ ("T" :> "t") @@
  ("U" :> "u") @@ ("V" :> "v") @@ ("W" :> "w") @@ ("X" :> "x") @@
  ("Y" :> "y") @@ ("Z" :> "z")

LowerCh(c) == IF c \in DOMAIN UpperToLower THEN UpperToLower[c] ELSE c

\* String.prototype.toLowerCase
RECURSIVE toLowerCase(_)
toLowerCase(s) ==
  IF Len(s) = 0 THEN ""
  ELSE IF Len(s) = 1 THEN LowerCh(s)
  ELSE LET h == Len(s) \div 2
       IN  toLowerCase(SubSeq(s, 1, h)) \o toLowerCase(SubSeq(s, h + 1, Len(s)))

SetMin(S) == CHOOSE x \in S : \A y \in S : x <= y
SetMax(S) == CHOOSE x \in S : \A y \in S : x >= y

\* String.prototype.trim
trim(s) ==
  LET ns == {i \in 1..Len(s) : Ch(s, i) \notin WhiteSpace}
  IN  IF ns = {} THEN "" ELSE SubSeq(s, SetMin(ns), SetMax(ns))

\* String.prototype.includes
includes(s, w) ==
  \E i \in 1..(Len(s) - Len(w) + 1) : SubSeq(s, i, i + Len(w) - 1) = w

\* Array.prototype.join(sep) of a sequence of strings
RECURSIVE JoinWith(_, _)
JoinWith(strs, sep) ==
  IF Len(strs) = 0 THEN ""
  ELSE IF Len(strs) = 1 THEN strs[1]
  ELSE strs[1] \o sep \o JoinWith(Tail(strs), sep)

\* n copies of the character c
RECURSIVE Repeat(_, _)
Repeat(c, n) ==
  IF n <= 0 THEN ""
  ELSE IF n = 1 THEN c
  ELSE LET h == n \div 2 IN Repeat(c, h) \o Repeat(c, n - h)

\* all concatenations of at most n chunks of V
RECURSIVE Strs(_, _)
Strs(V, n) ==
  IF n = 0 THEN {""}
  ELSE LET P == Strs(V, n - 1) IN P \cup {p \o c : p \in P, c \in V}

\* ------------------------------------------------------------------------
\* Regular expressions of the source
\* ------------------------------------------------------------------------
IsWordAt(s, i) == i >= 1 /\ i <= Len(s) /\ Ch(s, i) \in WordChars

\* \b between the characters p and p+1 of s
WordBoundary(s, p) == IsWordAt(s, p) # IsWordAt(s, p + 1)

\* /\b(w1|w2|...)\b/ over the alternatives W
MatchesWord(s, W) ==
  \E w \in W : \E i \in 1..(Len(s) - Len(w) + 1) :
     /\ SubSeq(s, i, i + Len(w) - 1) = w
     /\ WordBoundary(s, i - 1)
     /\ WordBoundary(s, i + Len(w) - 1)

\* /name\s*\(/ on a lower-cased string
MatchesCall(s, name) ==
  \E i \in 1..(Len(s) - Len(name) + 1) :
     /\ SubSeq(s, i, i + Len(name) - 1) = name
     /\ \E k \in (i + Len(name))..Len(s) :
           /\ Ch(s, k) = "("
           /\ \A j \in (i + Len(name))..(k - 1) : Ch(s, j) \in WhiteSpace

\* /on\w+\s*=/ on a lower-cased string
MatchesEventHandler(s) ==
  \E i \in 1..(Len(s) - 1) :
     /\ SubSeq(s, i, i + 1) = "on"
     /\ \E j \in (i + 2)..Len(s) :
           /\ \A m \in (i + 2)..j : Ch(s, m) \in WordChars
           /\ \E k \in (j + 1)..Len(s) :
                 /\ Ch(s, k) = "="
                 /\ \A m \in (j + 1)..(k - 1) : Ch(s, m) \in WhiteSpace


\* ------------------------------------------------------------------------
\* JavaScript values and errors
\* ------------------------------------------------------------------------
Str(s) == [t |-> "string", s |-> s]
Undefined == [t |-> "undefined", s |-> ""]
Null == [t |-> "null", s |-> ""]
Num == [t |-> "number", s |-> ""]

\* a number with the decimal text s, a boolean, an object with the JSON text s
NumberOf(s) == [t |-> "number", s |-> s]
BoolOf(b) == [t |-> "boolean", s |-> IF b THEN "true" ELSE "false"]
ObjectOf(s) == [t |-> "object", s |-> s]

\* the truthiness test of `x || y`, `x ? a : b` and `!x` on these values
Truthy(v) ==
  \/ (v.t = "number" /\ v.s # "0")
  \/ (v.t = "string" /\ v.s # "")
  \/ (v.t = "boolean" /\ v.s = "true")
  \/ v.t = "object"

\* a || b
Or(a, b) == IF Truthy(a) THEN a ELSE b

\* the string a value becomes in a concatenation or a template literal
StringOf(v) ==
  CASE v.t = "undefined" -> "undefined"
    [] v.t = "null" -> "null"
    [] v.t = "object" -> "[object Object]"
    [] OTHER -> v.s

Return(v) == [t |-> "return", v |-> v]
Throw(e) == [t |-> "throw", e |-> e]

\* errorHandler: class APIError (message, statusCode) and its subclasses;
\* hasStatus/status are the `status` property that errors of the remote
\* client carry and the classes of errorHandler do not
APIError(name, message, statusCode) ==
  [name |-> name, message |-> message, statusCode |-> statusCode,
   hasStatus |-> FALSE, status |-> 0]

ValidationError(message) == APIError("ValidationError", message, 400)

OpenAIError(message) == APIError("OpenAIError", message, 502)

\* an error thrown by the remote client: not an APIError
RemoteError(hasStatus, status) ==
  [name |-> "Error", message |-> "remote failure", statusCode |-> 0,
   hasStatus |-> hasStatus, status |-> status]

\* `error instanceof OpenAIError`
IsOpenAIError(e) == e.name = "OpenAIError"

\* ------------------------------------------------------------------------
\* utils/validation.ts
\* ------------------------------------------------------------------------
MaxQueryLength == 1000

\* containsHarmfulContent with the patterns matched case-sensitively
containsHarmfulContent_CaseSensitive(query) ==
  \/ includes(query, "<script")
  \/ includes(query, "javascript:")
  \/ MatchesEventHandler(query)
  \/ MatchesCall(query, "eval")
  \/ MatchesCall(query, "exec")
  \/ MatchesCall(query, "system")
  \/ MatchesCall(query, "shell_exec")
  \/ MatchesCall(query, "passthru")

containsHarmfulContent(query) ==
  LET q == toLowerCase(query)
  IN  \/ includes(q, "<script")
      \/ includes(q, "javascript:")
      \/ MatchesEventHandler(q)
      \/ MatchesCall(q, "eval")
      \/ MatchesCall(q, "exec")
      \/ MatchesCall(q, "system")
      \/ MatchesCall(q, "shell_exec")
      \/ MatchesCall(q, "passthru")

\* QueryRuleErrors with the length limit one too high
QueryRuleErrors_OffByOne(query) ==
  IF query.t = "undefined" THEN << "\"query\" is required" >>
  ELSE IF query.t # "string" THEN << "\"query\" must be a string" >>
  ELSE IF trim(query.s) = "" THEN << "\"query\" is not allowed to be empty" >>
  ELSE (IF Len(trim(query.s)) > MaxQueryLength + 1
          THEN << "\"query\" length must be less than or equal to 1000 characters long" >>
          ELSE << >>)
       \o
       (IF containsHarmfulContent(trim(query.s))
          THEN << "\"query\" failed custom validation because Query contains potentially harmful content" >>
          ELSE << >>)

\* the error messages of the rules of querySchema.query, in rule order;
\* the rules see the trimmed value (Joi converts before it validates)
QueryRuleErrors(query) ==
  IF query.t = "undefined" THEN << "\"query\" is required" >>
  ELSE IF query.t # "string" THEN << "\"query\" must be a string" >>
  ELSE LET v == trim(query.s)
       IN  IF v = "" THEN << "\"query\" is not allowed to be empty" >>
           ELSE (IF Len(v) > MaxQueryLength
                   THEN << "\"query\" length must be less than or equal to 1000 characters long" >>
                   ELSE << >>)
                \o
                (IF containsHarmfulContent(v)
                   THEN << "\"query\" failed custom validation because Query contains potentially harmful content" >>
                   ELSE << >>)

\* the keys querySchema.context allows, with the type each must have
ContextKeyType ==
  ("nlwebResults" :> "array") @@ ("userId" :> "string") @@ ("sessionId" :> "string")

ContextKeyOrder == << "nlwebResults", "userId", "sessionId", "role" >>

\* the error messages of querySchema.context
ContextRuleErrors(context) ==
  IF context.t = "undefined" THEN << >>
  ELSE IF context.t # "object" THEN << "\"context\" must be of type object" >>
  ELSE LET KeyError(k) ==
             IF k \notin DOMAIN context.fields THEN << >>
             ELSE IF k \notin DOMAIN ContextKeyType
                    THEN << "\"context." \o k \o "\" is not allowed" >>
             ELSE IF context.fields[k] # ContextKeyType[k]
                    THEN << "\"context." \o k \o "\" must be " \o ContextKeyType[k] >>
             ELSE << >>
       IN  KeyError(ContextKeyOrder[1]) \o KeyError(ContextKeyOrder[2])
           \o KeyError(ContextKeyOrder[3]) \o KeyError(ContextKeyOrder[4])

\* querySchema without the conversion of trim(): the value is the raw string
querySchema_NoTrim(input) ==
  [details |-> QueryRuleErrors(input.query) \o ContextRuleErrors(input.context),
   value |-> [query |-> IF input.query.t = "string" THEN input.query.s ELSE "",
              context |-> input.context]]

\* querySchema.validate(input, { abortEarly: false }): the error details and
\* the converted value
querySchema(input) ==
  [details |-> QueryRuleErrors(input.query) \o ContextRuleErrors(input.context),
   value |-> [query |-> IF input.query.t = "string" THEN trim(input.query.s) ELSE "",
              context |-> input.context]]

validateQueryInput(input) ==
  LET r == querySchema(input)
  IN  IF Len(r.details) > 0
        THEN Throw(ValidationError(JoinWith(r.details, ", ")))
        ELSE Return(r.value.query)

\* ------------------------------------------------------------------------
\* services/queryService.ts: getQueryType
\* ------------------------------------------------------------------------
CreativeWords ==
  {"story", "poem", "write", "create", "imagine", "fiction", "creative"}

AnalyticalWords ==
  {"analyze", "research", "data", "statistics", "fact", "facts", "compare",
   "explain", "how", "why", "what"}

QuestionWords == {"how", "what", "why", "when", "where", "who"}

\* getQueryType with the analytical family tried before the creative one
getQueryType_AnalyticalFirst(query) ==
  IF MatchesWord(toLowerCase(query), AnalyticalWords) THEN "analytical"
  ELSE IF MatchesWord(toLowerCase(query), CreativeWords) THEN "creative"
  ELSE IF includes(toLowerCase(query), "?") \/ MatchesWord(toLowerCase(query), QuestionWords)
         THEN "quality"
  ELSE "fast"

getQueryType(query) ==
  LET lowerQuery == toLowerCase(query)
  IN  IF MatchesWord(lowerQuery, CreativeWords) THEN "creative"
      ELSE IF MatchesWord(lowerQuery, AnalyticalWords) THEN "analytical"
      ELSE IF includes(lowerQuery, "?") \/ MatchesWord(lowerQuery, QuestionWords)
             THEN "quality"
      ELSE "fast"

\* ------------------------------------------------------------------------
\* utils/openaiConfig.ts
\* ------------------------------------------------------------------------
\* { ...a, ...b }: the properties of b replace those of a
Spread(a, b) == b @@ a

DEFAULT_CONFIG ==
  [model |-> "gpt-3.5-turbo", maxTokens |-> 500, temperature |-> 70,
   topP |-> 90, frequencyPenalty |-> 10, presencePenalty |-> 10,
   timeout |-> 30000]

FAST_CONFIG ==
  Spread(DEFAULT_CONFIG,
         [model |-> "gpt-3.5-turbo", maxTokens |-> 300, temperature |-> 50,
          topP |-> 80, frequencyPenalty |-> 0, presencePenalty |-> 0])

QUALITY_CONFIG ==
  Spread(DEFAULT_CONFIG,
         [model |-> "gpt-4", maxTokens |-> 800, temperature |-> 80,
          topP |-> 95, frequencyPenalty |-> 20, presencePenalty |-> 20])

CREATIVE_CONFIG ==
  Spread(DEFAULT_CONFIG,
         [maxTokens |-> 600, temperature |-> 90, topP |-> 95,
          frequencyPenalty |-> -10, presencePenalty |-> 30])

ANALYTICAL_CONFIG ==
  Spread(DEFAULT_CONFIG,
         [maxTokens |-> 400, temperature |-> 30, topP |-> 70,
          frequencyPenalty |-> 30, presencePenalty |-> 10])

DigitValue ==
  ("0" :> 0) @@ ("1" :> 1) @@ ("2" :> 2) @@ ("3" :> 3) @@ ("4" :> 4) @@
  ("5" :> 5) @@ ("6" :> 6) @@ ("7" :> 7) @@ ("8" :> 8) @@ ("9" :> 9)

IsDigitAt(s, i) == i >= 1 /\ i <= Len(s) /\ Ch(s, i) \in DOMAIN DigitValue

\* the number of digits of s from position i on
DigitRun(s, i) ==
  SetMax({n \in 0..(Len(s) - i + 1) : \A k \in i..(i + n - 1) : IsDigitAt(s, k)})

\* the value of the digits s[i..j]
RECURSIVE DigitsValue(_, _, _)
DigitsValue(s, i, j) ==
  IF j < i THEN 0 ELSE 10 * DigitsValue(s, i, j - 1) + DigitValue[Ch(s, j)]

\* NaN, the result of parsing a string that has no leading numeral: kept as
\* a value that no parse of a numeral yields; every comparison of the source
\* with it is false
NaN == -1

\* parseInt(s, 10) of an unsigned numeral: the leading digits
parseInt(s) ==
  LET n == DigitRun(s, 1)
  IN  IF n = 0 THEN NaN ELSE DigitsValue(s, 1, n)

\* parseFloat(s) of an unsigned decimal numeral, in hundredths (fraction
\* digits beyond the second are dropped)
parseFloat(s) ==
  LET n == DigitRun(s, 1)
      f == IF n + 1 <= Len(s) /\ Ch(s, n + 1) = "." THEN DigitRun(s, n + 2) ELSE 0
      d1 == IF f >= 1 THEN DigitValue[Ch(s, n + 2)] ELSE 0
      d2 == IF f >= 2 THEN DigitValue[Ch(s, n + 3)] ELSE 0
  IN  IF n = 0 /\ f = 0 THEN NaN
      ELSE 100 * DigitsValue(s, 1, n) + 10 * d1 + d2

\* getOptimizedConfig(useCase) under the environment env (process.env)
getOptimizedConfig(useCase, env) ==
  LET envModel == env.OPENAI_MODEL
      envMaxTokens == env.OPENAI_MAX_TOKENS
      envTemperature == env.OPENAI_TEMPERATURE
      config ==
        Spread(DEFAULT_CONFIG,
               [model |-> IF Truthy(envModel) THEN envModel.s ELSE DEFAULT_CONFIG.model,
                maxTokens |-> IF Truthy(envMaxTokens) THEN parseInt(envMaxTokens.s)
                              ELSE DEFAULT_CONFIG.maxTokens,
                temperature |-> IF Truthy(envTemperature) THEN parseFloat(envTemperature.s)
                                ELSE DEFAULT_CONFIG.temperature])
      case == IF useCase.t = "string" THEN toLowerCase(useCase.s) ELSE ""
  IN  IF case = "fast" THEN Spread(FAST_CONFIG, config)
      ELSE IF case = "quality" THEN Spread(QUALITY_CONFIG, config)
      ELSE IF case = "creative" THEN Spread(CREATIVE_CONFIG, config)
      ELSE IF case = "analytical" THEN Spread(ANALYTICAL_CONFIG, config)
      ELSE config

\* ------------------------------------------------------------------------
\* JSON.parse and JSON.stringify, for a scalar (a string without escape
\* sequences, a non-negative integer, true, false, null) or an object whose
\* members are such scalars
\* ------------------------------------------------------------------------
JsonWhiteSpace == {" ", "\t", "\n", "\r"}
JsonDigits == {"0", "1", "2", "3", "4", "5", "6", "7", "8", "9"}

\* the first position from i on that holds no white space
SkipWs(s, i) ==
  SetMin({j \in i..(Len(s) + 1) :
            j = Len(s) + 1 \/ Ch(s, j) \notin JsonWhiteSpace})

\* s has the text w at position i
HasAt(s, i, w) == i + Len(w) - 1 <= Len(s) /\ SubSeq(s, i, i + Len(w) - 1) = w

JsonFail == [ok |-> FALSE, v |-> Undefined, next |-> 0]
JsonOk(v, next) == [ok |-> TRUE, v |-> v, next |-> next]

\* the string literal whose opening quote is at i and closing quote at e
JsonStringTo(s, i, e) ==
  IF \E j \in (i + 1)..(e - 1) : Ch(s, j) \in {"\\", "\n", "\t", "\r"}
    THEN JsonFail
    ELSE JsonOk(Str(SubSeq(s, i + 1, e - 1)), e + 1)

\* the number literal from i to e
JsonNumberTo(s, i, e) ==
  IF Ch(s, i) = "0" /\ e > i THEN JsonFail
  ELSE JsonOk(NumberOf(SubSeq(s, i, e)), e + 1)

\* the scalar at position i: the value and the position after it
JsonScalar(s, i) ==
  IF i > Len(s) THEN JsonFail
  ELSE IF Ch(s, i) = "\""
    THEN IF \E j \in (i + 1)..Len(s) : Ch(s, j) = "\""
           THEN JsonStringTo(s, i, SetMin({j \in (i + 1)..Len(s) : Ch(s, j) = "\""}))
           ELSE JsonFail
  ELSE IF Ch(s, i) \in JsonDigits
    THEN JsonNumberTo(s, i, SetMax({e \in i..Len(s) :
                                      \A j \in i..e : Ch(s, j) \in JsonDigits}))
  ELSE IF HasAt(s, i, "null") THEN JsonOk(Null, i + 4)
  ELSE IF HasAt(s, i, "true") THEN JsonOk(BoolOf(TRUE), i + 4)
  ELSE IF HasAt(s, i, "false") THEN JsonOk(BoolOf(FALSE), i + 5)
  ELSE JsonFail

JsonObjectFail == [ok |-> FALSE, members |-> << >>, next |-> 0]

RECURSIVE JsonMembers(_, _, _)
\* after the member key : val, at position p (white space skipped)
JsonAfterMember(s, p, acc) ==
  IF HasAt(s, p, ",") THEN JsonMembers(s, SkipWs(s, p + 1), acc)
  ELSE IF HasAt(s, p, "}") THEN [ok |-> TRUE, members |-> acc, next |-> p + 1]
  ELSE JsonObjectFail

\* the value of the member with the key, at position p
JsonMemberValue(s, key, val, acc) ==
  IF ~val.ok THEN JsonObjectFail
  ELSE JsonAfterMember(s, SkipWs(s, val.next),
                       Append(acc, [k |-> key.v.s, v |-> val.v]))

\* after the key of a member, at position p (white space skipped)
JsonAfterKey(s, key, p, acc) ==
  IF HasAt(s, p, ":")
    THEN JsonMemberValue(s, key, JsonScalar(s, SkipWs(s, p + 1)), acc)
    ELSE JsonObjectFail

JsonMemberKey(s, key, acc) ==
  IF key.ok /\ key.v.t = "string"
    THEN JsonAfterKey(s, key, SkipWs(s, key.next), acc)
    ELSE JsonObjectFail

\* the members of an object from position i, acc being those before
JsonMembers(s, i, acc) == JsonMemberKey(s, JsonScalar(s, i), acc)

\* the object whose brace is at i
JsonObject(s, i) ==
  IF HasAt(s, SkipWs(s, i + 1), "}")
    THEN [ok |-> TRUE, members |-> << >>, next |-> SkipWs(s, i + 1) + 1]
    ELSE JsonMembers(s, SkipWs(s, i + 1), << >>)

\* the outcome of JSON.parse: ok is FALSE when it throws SyntaxError
JsonParsed(ok, isObject, v, members) ==
  [ok |-> ok, isObject |-> isObject, v |-> v, members |-> members]

JsonSyntaxError == JsonParsed(FALSE, FALSE, Undefined, << >>)

JsonParsedObject(s, obj) ==
  IF obj.ok /\ SkipWs(s, obj.next) = Len(s) + 1
    THEN JsonParsed(TRUE, TRUE, Undefined, obj.members)
    ELSE JsonSyntaxError

JsonParsedScalar(s, sc) ==
  IF sc.ok /\ SkipWs(s, sc.next) = Len(s) + 1
    THEN JsonParsed(TRUE, FALSE, sc.v, << >>)
    ELSE JsonSyntaxError

JSONparseAt(s, p) ==
  IF HasAt(s, p, "{") THEN JsonParsedObject(s, JsonObject(s, p))
  ELSE JsonParsedScalar(s, JsonScalar(s, p))

JSONparse(s) == JSONparseAt(s, SkipWs(s, 1))

\* jsonData[key]: a later member of the text replaces an earlier one
JsonGet(json, key) ==
  IF json.isObject /\ \E i \in 1..Len(json.members) : json.members[i].k = key
    THEN json.members[SetMax({i \in 1..Len(json.members) :
                                json.members[i].k = key})].v
    ELSE Undefined

\* JSON.stringify of a scalar
JsonScalarText(v) ==
  IF v.t = "string" THEN "\"" \o v.s \o "\"" ELSE StringOf(v)

\* the members of an object in property order: a key stands where it was
\* first set and holds the value it was last set to
JsonProperties(json) ==
  SelectSeq([i \in 1..Len(json.members) |->
               [k |-> json.members[i].k, v |-> JsonGet(json, json.members[i].k),
                first |-> \A j \in 1..(i - 1) : json.members[j].k # json.members[i].k]],
            LAMBDA m : m.first)

JsonMemberTexts(props) ==
  [i \in 1..Len(props) |-> "\"" \o props[i].k \o "\":" \o JsonScalarText(props[i].v)]

\* JSON.stringify(jsonData)
JSONstringify(json) ==
  IF json.isObject
    THEN "{" \o JoinWith(JsonMemberTexts(JsonProperties(json)), ",") \o "}"
    ELSE JsonScalarText(json.v)

\* the parsed value as a JavaScript value
JsonValue(json) == IF json.isObject THEN ObjectOf(JSONstringify(json)) ELSE json.v

\* ------------------------------------------------------------------------
\* services/nlwebService.ts: the content index and its search
\* ------------------------------------------------------------------------
\* the elements of a set of integers in increasing order
RECURSIVE SortedSeq(_)
SortedSeq(S) ==
  IF S = {} THEN << >>
  ELSE LET m == SetMin(S) IN << m >> \o SortedSeq(S \ {m})

\* the cut points of s at the characters of seps: 0, the positions of the
\* separator characters, Len(s) + 1
CutPoints(s, seps) ==
  << 0 >> \o SortedSeq({i \in 1..Len(s) : Ch(s, i) \in seps}) \o << Len(s) + 1 >>

\* the pieces of s between the consecutive cut points b
Pieces(s, b) == [k \in 1..(Len(b) - 1) |-> SubSeq(s, b[k] + 1, b[k + 1] - 1)]

\* String.prototype.split(' ')
splitSpace(s) == Pieces(s, CutPoints(s, {" "}))

\* the pieces of s between the cut points b, a run of adjacent separators
\* counting as one separator
PieceTexts(ps) == [j \in 1..Len(ps) |-> ps[j].piece]

RunPieces(s, b) ==
  PieceTexts(
    SelectSeq([k \in 1..(Len(b) - 1) |->
                 [piece |-> SubSeq(s, b[k] + 1, b[k + 1] - 1),
                  inRun |-> b[k] >= 1 /\ b[k + 1] <= Len(s) /\ b[k + 1] = b[k] + 1]],
              LAMBDA p : ~p.inRun))

\* String.prototype.split(/[.!?]+/)
splitSentences(s) == RunPieces(s, CutPoints(s, {".", "!", "?"}))

\* String.prototype.substring(0, n)
substring0(s, n) == SubSeq(s, 1, IF n < Len(s) THEN n ELSE Len(s))

RECURSIVE GCD(_, _)
GCD(a, b) == IF b = 0 THEN a ELSE GCD(b, a % b)

\* a relevance score: the fraction n/d in lowest terms; 0/0 is NaN
Ratio(n, d) ==
  IF d = 0 THEN [n |-> 0, d |-> 0]
  ELSE [n |-> n \div GCD(n, d), d |-> d \div GCD(n, d)]

\* a > b on scores (false when either is NaN)
RatioGreater(a, b) == a.d # 0 /\ b.d # 0 /\ a.n * b.d > b.n * a.d

RatioZero == [n |-> 0, d |-> 1]
RatioOne == [n |-> 1, d |-> 1]

\* the number of the words that occur in text
CountIn(words, text) == Cardinality({k \in 1..Len(words) : includes(text, words[k])})

\* NormalizedScore without Math.min
NormalizedScore_NoClamp(score2, n2) ==
  IF n2 = 0 THEN Ratio(0, 0) ELSE Ratio(score2, n2)

\* NormalizedScore with the score 1 for a query without words
NormalizedScore_EmptyIsOne(score2, n2) ==
  IF n2 = 0 THEN RatioOne
  ELSE IF score2 >= n2 THEN RatioOne
  ELSE Ratio(score2, n2)

\* Math.min(score / queryWords.length, 1), score and length given doubled
NormalizedScore(score2, n2) ==
  IF n2 = 0 THEN Ratio(0, 0)
  ELSE IF score2 >= n2 THEN RatioOne
  ELSE Ratio(score2, n2)

\* RelevanceOf with one added for a word of the title
RelevanceOf_TitleCountsOne(queryWords, contentLower, titleLower) ==
  NormalizedScore(2 * CountIn(queryWords, contentLower) + 2 * CountIn(queryWords, titleLower),
                  2 * Len(queryWords))

\* the score of the query words against the lower-cased title + ' ' + content
\* and the lower-cased title: one per word in the former, a half per word in
\* the latter
RelevanceOf(queryWords, contentLower, titleLower) ==
  NormalizedScore(2 * CountIn(queryWords, contentLower) + CountIn(queryWords, titleLower),
                  2 * Len(queryWords))

\* an NLWebContent
NLWebContent(url, title, content, description, structuredData) ==
  [url |-> url, title |-> title, content |-> content, description |-> description,
   structuredData |-> structuredData]

\* an Error with the message
JsError(message) ==
  [name |-> "Error", message |-> message, statusCode |-> 0, hasStatus |-> FALSE,
   status |-> 0]

\* queryLower.split(' ').filter(word => word.length > 2)
QueryWords(query) ==
  SelectSeq(splitSpace(toLowerCase(query)), LAMBDA word : Len(word) > 2)

\* calculateRelevance throws TypeError: content.title.toLowerCase is called
\* for a query word, and the title of the content is not a string
calculateRelevanceThrows(query, content) ==
  content.title.t # "string" /\ Len(QueryWords(query)) > 0

\* the score calculateRelevance returns when it does not throw
calculateRelevance(query, content) ==
  RelevanceOf(QueryWords(query),
              toLowerCase(StringOf(content.title) \o " " \o StringOf(content.content)),
              toLowerCase(StringOf(content.title)))

\* Array.prototype.slice(0, m)
slice0(seq, m) ==
  SubSeq(seq, 1, IF m >= 0 THEN (IF m < Len(seq) THEN m ELSE Len(seq))
                 ELSE (IF Len(seq) + m > 0 THEN Len(seq) + m ELSE 0))

\* a sorts before b: results.sort((a, b) => b.relevance - a.relevance),
\* stable, on the elements at positions i and j
SortsBefore(results, i, j) ==
  \/ RatioGreater(results[i].relevance, results[j].relevance)
  \/ (~RatioGreater(results[j].relevance, results[i].relevance) /\ i < j)

SortRank(results, i) ==
  1 + Cardinality({j \in 1..Len(results) : j # i /\ SortsBefore(results, j, i)})

sortByRelevance(results) ==
  [r \in 1..Len(results) |->
     results[CHOOSE i \in 1..Len(results) : SortRank(results, i) = r]]

\* search(query, maxResults) over the index: the results as pairs of the
\* content and its relevance; an error of the loop is caught and [] returned
search(index, query, maxResults) ==
  IF \E i \in 1..Len(index) : calculateRelevanceThrows(query, index[i].content)
    THEN << >>
    ELSE slice0(sortByRelevance(
                  SelectSeq([i \in 1..Len(index) |->
                               [content |-> index[i].content,
                                relevance |-> calculateRelevance(query, index[i].content)]],
                            LAMBDA r : RatioGreater(r.relevance, RatioZero))),
                maxResults)

\* the first sentence that contains the token, cut to 200 characters, or
\* else the first 200 characters of the content
SnippetOf(content, sentences, token) ==
  IF \E k \in 1..Len(sentences) : includes(toLowerCase(sentences[k]), token)
    THEN substring0(sentences[SetMin({k \in 1..Len(sentences) :
                                         includes(toLowerCase(sentences[k]), token)})],
                    200) \o "..."
    ELSE substring0(content, 200) \o "..."

\* extractSnippet(content, query) for a content that is a string
extractSnippet(content, query) ==
  SnippetOf(content, splitSentences(content), splitSpace(toLowerCase(query))[1])

\* generateAnswer(question, context): an error of the map (substring of a
\* content that is not a string) is caught and the apology returned
generateAnswer(question, context) ==
  IF \E k \in 1..Len(context) : context[k].content.content.t # "string"
    THEN "I apologize, but I encountered an error while generating a response. Please try rephrasing your question."
    ELSE "Based on the available information, here's what I found regarding \""
           \o question \o "\":\n\n"
           \o JoinWith([k \in 1..Len(context) |->
                          "From " \o StringOf(context[k].content.title) \o ": "
                             \o substring0(context[k].content.content.s, 200) \o "..."],
                       "\n\n")
           \o "\n\nThis information is derived from the indexed content in the NLWeb knowledge base. For more specific details, you may want to visit the source websites directly."

\* the response of ask for the search results (the processing time, a
\* difference of two clock readings, is left out)
AskResponse(query, searchResults) ==
  [answer |-> generateAnswer(query.question, searchResults),
   sources |-> [k \in 1..Len(searchResults) |->
                  [title |-> searchResults[k].content.title,
                   url |-> searchResults[k].content.url,
                   snippet |-> extractSnippet(searchResults[k].content.content.s,
                                              query.question),
                   relevanceScore |-> IF RatioGreater(searchResults[k].relevance, RatioZero)
                                       THEN searchResults[k].relevance
                                       ELSE RatioZero]],
   metadata |-> [query |-> query.question,
                 totalSources |-> Len(searchResults)]]

\* ask for the search results: extractSnippet throws TypeError for a content
\* that is not a string (content.split), and ask throws an Error for it
AskOutcome(query, searchResults) ==
  IF \E k \in 1..Len(searchResults) : searchResults[k].content.content.t # "string"
    THEN Throw(JsError("NLWeb query failed: content.split is not a function"))
    ELSE Return(AskResponse(query, searchResults))

\* ask(query); maxResults is 0 when the caller gives none or gives 0
ask(index, query) ==
  AskOutcome(query,
             search(index, query.question,
                    IF query.maxResults # 0 THEN query.maxResults ELSE 5))

\* the documents the constructor ingests (initializeDefaultContent): each is
\* JSON without a type discriminator, stored under the metadata-less defaults
SeedContent ==
  << NLWebContent(Str("unknown"), Str("Untitled"),
       Str("{\"url\":\"https://example.com/ai-guide\",\"title\":\"AI Development Guide\",\"content\":\"Artificial Intelligence development requires careful consideration of ethical implications, data quality, and model performance. Modern AI systems use large language models trained on vast datasets to perform tasks like text generation, code completion, and question answering.\",\"description\":\"Comprehensive guide to AI development best practices\"}"),
       Undefined,
       ObjectOf("{\"url\":\"https://example.com/ai-guide\",\"title\":\"AI Development Guide\",\"content\":\"Artificial Intelligence development requires careful consideration of ethical implications, data quality, and model performance. Modern AI systems use large language models trained on vast datasets to perform tasks like text generation, code completion, and question answering.\",\"description\":\"Comprehensive guide to AI development best practices\"}")),
     NLWebContent(Str("unknown"), Str("Untitled"),
       Str("{\"url\":\"https://example.com/web-dev\",\"title\":\"Modern Web Development\",\"content\":\"Web development has evolved significantly with the advent of modern frameworks, responsive design principles, and progressive web applications. Key technologies include React, Node.js, TypeScript, and CSS Grid.\",\"description\":\"Overview of current web development technologies and practices\"}"),
       Undefined,
       ObjectOf("{\"url\":\"https://example.com/web-dev\",\"title\":\"Modern Web Development\",\"content\":\"Web development has evolved significantly with the advent of modern frameworks, responsive design principles, and progressive web applications. Key technologies include React, Node.js, TypeScript, and CSS Grid.\",\"description\":\"Overview of current web development technologies and practices\"}")),
     NLWebContent(Str("unknown"), Str("Untitled"),
       Str("{\"url\":\"https://example.com/nlweb-intro\",\"title\":\"Introduction to NLWeb\",\"content\":\"NLWeb transforms traditional websites into conversational interfaces using natural language processing. It leverages Schema.org structured data and acts as an MCP server for AI agent integration.\",\"description\":\"Learn about NLWeb and its capabilities\"}"),
       Undefined,
       ObjectOf("{\"url\":\"https://example.com/nlweb-intro\",\"title\":\"Introduction to NLWeb\",\"content\":\"NLWeb transforms traditional websites into conversational interfaces using natural language processing. It leverages Schema.org structured data and acts as an MCP server for AI agent integration.\",\"description\":\"Learn about NLWeb and its capabilities\"}")) >>

\* ------------------------------------------------------------------------
\* services/nlwebService.ts: ingestion, the MCP endpoint, health
\* ------------------------------------------------------------------------
\* the metadata argument: undefined, or an object with these properties
Metadata(url, title, description) ==
  [t |-> "object", url |-> url, title |-> title, description |-> description]

NoMetadata ==
  [t |-> "undefined", url |-> Undefined, title |-> Undefined, description |-> Undefined]

\* metadata?.key
MetaGet(metadata, key) == IF metadata.t = "object" THEN metadata[key] ELSE Undefined

\* ParsedContent without the branch of the structured data
ParsedContent_NoStructured(content, metadata, json) ==
  IF ~json.ok \/ (~json.isObject /\ json.v.t = "null")
    THEN NLWebContent(Or(MetaGet(metadata, "url"), Str("unknown")),
                      Or(MetaGet(metadata, "title"), Str("Untitled")),
                      Str(content),
                      MetaGet(metadata, "description"),
                      Undefined)
  ELSE NLWebContent(Or(MetaGet(metadata, "url"), Str("unknown")),
                    Or(MetaGet(metadata, "title"), Str("Untitled")),
                    IF ~json.isObject /\ json.v.t = "string"
                      THEN json.v ELSE Str(JSONstringify(json)),
                    Undefined,
                    JsonValue(json))

\* parseContent for the outcome of JSON.parse(content); an error of the try
\* block (SyntaxError, or TypeError for the properties of null) is caught
ParsedContent(content, metadata, json) ==
  IF ~json.ok \/ (~json.isObject /\ json.v.t = "null")
    THEN NLWebContent(Or(MetaGet(metadata, "url"), Str("unknown")),
                      Or(MetaGet(metadata, "title"), Str("Untitled")),
                      Str(content),
                      MetaGet(metadata, "description"),
                      Undefined)
  ELSE IF Truthy(Or(JsonGet(json, "@type"), JsonGet(json, "type")))
    THEN NLWebContent(Or(Or(JsonGet(json, "url"), MetaGet(metadata, "url")),
                         Str("unknown")),
                      Or(Or(JsonGet(json, "name"), JsonGet(json, "title")),
                         Str("Untitled")),
                      Or(JsonGet(json, "description"), Str(JSONstringify(json))),
                      JsonGet(json, "description"),
                      JsonValue(json))
  ELSE NLWebContent(Or(MetaGet(metadata, "url"), Str("unknown")),
                    Or(MetaGet(metadata, "title"), Str("Untitled")),
                    IF ~json.isObject /\ json.v.t = "string"
                      THEN json.v ELSE Str(JSONstringify(json)),
                    Undefined,
                    JsonValue(json))

\* parseContent without the catch block
parseContent_NoCatch(content, metadata) ==
  IF ~JSONparse(content).ok
    THEN Throw(JsError("Unexpected token in JSON"))
    ELSE Return(ParsedContent(content, metadata, JSONparse(content)))

\* parseContent(content, metadata): it returns in every branch
parseContent(content, metadata) ==
  Return(ParsedContent(content, metadata, JSONparse(content)))

\* `content_${Date.now()}_${Math.random().toString(36).substr(2, 9)}`: the
\* clock reading and the random suffix determine the identifier and are
\* determined by it
ContentId(time, suffix) == [time |-> time, suffix |-> suffix]

\* IndexPush that skips a content the index holds already
IndexPush_Dedup(index, id, parsedContent) ==
  IF \E i \in 1..Len(index) : index[i].content = parsedContent
    THEN index
    ELSE Append(index, [id |-> id, content |-> parsedContent])

\* IndexPush with the new entry written over the last one
IndexPush_ReplaceLast(index, id, parsedContent) ==
  [index EXCEPT ![Len(index)] = [id |-> id, content |-> parsedContent]]

\* this.contentIndex.push({ id, content: parsedContent })
IndexPush(index, id, parsedContent) ==
  Append(index, [id |-> id, content |-> parsedContent])

\* this.vectorStore.set(id, parsedContent)
StoreSet(store, id, parsedContent) == (id :> parsedContent) @@ store

\* getHealth() reporting the number of documents loaded at construction
getHealth_SeedCount(index) == [status |-> "healthy", indexedContent |-> Len(SeedContent)]

\* getHealth() (the timestamp is left out)
getHealth(index) == [status |-> "healthy", indexedContent |-> Len(index)]

\* an MCP request: params is flattened, an absent parameter is undefined
\* (maxResults and limit: 0)
MCPRequest(method, question, maxResults, content, metadata, query, limit) ==
  [method |-> method, question |-> question, maxResults |-> maxResults,
   content |-> content, metadata |-> metadata, query |-> query, limit |-> limit]

\* an MCP response: keys are the properties it has
MCPResult(result) == [keys |-> {"result"}, result |-> result, error |-> ""]
MCPError(error) == [keys |-> {"error"}, result |-> Undefined, error |-> error]

\* the outcome of ingestContent for the outcome of parseContent: the index
\* and the store after it; an error of the try block is thrown on as an Error
IngestOutcome(index, store, id, parsed) ==
  IF parsed.t = "throw"
    THEN [t |-> "throw", v |-> Undefined,
          e |-> JsError("Failed to ingest content to NLWeb"),
          index |-> index, store |-> store]
    ELSE [t |-> "return", v |-> Undefined, e |-> JsError(""),
          index |-> IndexPush(index, id, parsed.v),
          store |-> StoreSet(store, id, parsed.v)]

\* ingestContent(content, metadata), id being the identifier it generates
ingestContent(index, store, content, metadata, id) ==
  IngestOutcome(index, store, id, parseContent(content, metadata))

\* the outcome of handleMCP: the response, the index and the store after it
MCPOutcome(response, index, store) ==
  [response |-> response, index |-> index, store |-> store]

\* the response for the outcome of `await this.ask(query)`
MCPAskResponse(asked) ==
  IF asked.t = "throw"
    THEN MCPError("MCP request failed: " \o asked.e.message)
    ELSE MCPResult(asked.v)

\* the outcome for the outcome of `await this.ingestContent(...)`
MCPIngestOutcome(ingested) ==
  MCPOutcome(IF ingested.t = "throw"
               THEN MCPError("MCP request failed: " \o ingested.e.message)
               ELSE MCPResult([success |-> TRUE]),
             ingested.index, ingested.store)

\* handleMCP whose 'ask' case does not test the question
handleMCP_AskUnchecked(index, store, request, id) ==
  CASE request.method = "ask" ->
         MCPOutcome(
           MCPAskResponse(
             ask(index, [question |-> request.question.s,
                         maxResults |-> IF request.maxResults # 0
                                          THEN request.maxResults ELSE 5])),
           index, store)
    [] request.method = "ingest" ->
         IF ~Truthy(request.content)
           THEN MCPOutcome(MCPError("Missing required parameter: content"), index, store)
           ELSE MCPIngestOutcome(
                  ingestContent(index, store, request.content.s, request.metadata, id))
    [] request.method = "search" ->
         MCPOutcome(
           IF ~Truthy(request.query)
             THEN MCPError("Missing required parameter: query")
             ELSE MCPResult(search(index, request.query.s,
                                   IF request.limit # 0 THEN request.limit ELSE 5)),
           index, store)
    [] request.method = "health" ->
         MCPOutcome(MCPResult([status |-> "healthy"]), index, store)
    [] OTHER ->
         MCPOutcome(MCPError("Unknown method: " \o request.method), index, store)

\* handleMCP(request), id being the identifier an ingestion generates
handleMCP(index, store, request, id) ==
  CASE request.method = "ask" ->
         MCPOutcome(
           IF ~Truthy(request.question)
             THEN MCPError("Missing required parameter: question")
             ELSE MCPAskResponse(
                    ask(index, [question |-> request.question.s,
                                maxResults |-> IF request.maxResults # 0
                                                 THEN request.maxResults ELSE 5])),
           index, store)
    [] request.method = "ingest" ->
         IF ~Truthy(request.content)
           THEN MCPOutcome(MCPError("Missing required parameter: content"), index, store)
           ELSE MCPIngestOutcome(
                  ingestContent(index, store, request.content.s, request.metadata, id))
    [] request.method = "search" ->
         MCPOutcome(
           IF ~Truthy(request.query)
             THEN MCPError("Missing required parameter: query")
             ELSE MCPResult(search(index, request.query.s,
                                   IF request.limit # 0 THEN request.limit ELSE 5)),
           index, store)
    [] request.method = "health" ->
         MCPOutcome(MCPResult([status |-> "healthy"]), index, store)
    [] OTHER ->
         MCPOutcome(MCPError("Unknown method: " \o request.method), index, store)

\* ------------------------------------------------------------------------
\* services/queryService.ts: enrichWithNLWeb
\* ------------------------------------------------------------------------
EnrichMaxResults == 3

\* the text for the sources of the NLWeb response
EnrichedText(query, sources) ==
  IF Len(sources) > 0
    THEN query \o "\n\nRelevant web context from NLWeb:\n"
               \o JoinWith([k \in 1..Len(sources) |->
                              "[" \o StringOf(sources[k].title) \o "] "
                                  \o sources[k].snippet],
                           "\n\n")
    ELSE query

\* EnrichedOutcome with the message of the error of ask returned
EnrichedOutcome_ErrorText(query, asked) ==
  IF asked.t = "throw" THEN asked.e.message ELSE EnrichedText(query, asked.v.sources)

\* the text returned for the outcome of nlwebService.ask: the original query
\* when ask threw
EnrichedOutcome(query, asked) ==
  IF asked.t = "throw" THEN query ELSE EnrichedText(query, asked.v.sources)

enrichWithNLWeb(index, query) ==
  EnrichedOutcome(query, ask(index, [question |-> query, maxResults |-> EnrichMaxResults]))

\* validateConfig(config): TRUE when it returns, FALSE when it throws
validateConfig(config) ==
  /\ config.model # ""
  /\ (config.maxTokens = NaN \/ ~(config.maxTokens < 1 \/ config.maxTokens > 4096))
  /\ (config.temperature = NaN \/ ~(config.temperature < 0 \/ config.temperature > 200))
  /\ ~(config.topP < 0 \/ config.topP > 100)
  /\ ~(config.frequencyPenalty < -200 \/ config.frequencyPenalty > 200)
  /\ ~(config.presencePenalty < -200 \/ config.presencePenalty > 200)
  /\ ~(config.timeout < 1000 \/ config.timeout > 120000)

\* ------------------------------------------------------------------------
\* Inputs
\* ------------------------------------------------------------------------
\* chunks of questions, for the classifier
QuestionVocab ==
  {"write", "facts", "What", "when", "?", " ", "rewrite"}

\* chunks of questions, for the validator
UnsafeVocab ==
  {" ", "ab", "<Script", "JavaScript:", "onClick", "on", "=", "exec("}

\* chunks of the questions handed to processQuery
QueryVocab ==
  {" ", "write", "what", "?", "<script", "AI"}

\* the questions of the unit tests and of the specification's examples
ExampleQueries ==
  {"Write a story about dragons", "Create a poem about nature",
   "Imagine a world without technology", "Analyze the data trends",
   "What are the statistics for 2023?", "Compare these two approaches",
   "What is the meaning of life?", "How does photosynthesis work?",
   "Why is the sky blue?", "Hello world", "This is a test", "Simple statement",
   "write a story analyzing trends", "What is the capital of France?",
   "test query", "Is it raining?", "who called", "<script>alert(\"xss\")</script>",
   "x = eval (y)", "Analyze STORY data"}

\* questions around the length limit, with and without surrounding blanks
LongQueries ==
  {Repeat(" ", l) \o Repeat("a", n) \o Repeat(" ", t) :
     l \in 0..LengthSlack, t \in 0..LengthSlack,
     n \in (MaxQueryLength - LengthSlack)..(MaxQueryLength + LengthSlack)}

ClassifierInputs == Strs(QuestionVocab, MaxChunks) \cup ExampleQueries

ValidatorQueries ==
  {Str(q) : q \in Strs(UnsafeVocab, MaxChunks) \cup ExampleQueries \cup LongQueries}
    \cup {Undefined, Num}

\* the queries validated with every context
ContextQueries ==
  {Str(q) : q \in ExampleQueries \cup {"", " hi "}} \cup {Undefined, Num}

ProcessQueries == Strs(QueryVocab, MaxQueryChunks) \cup ExampleQueries \cup LongQueries

ContextObject(fields) == [t |-> "object", fields |-> fields]
NoContext == [t |-> "undefined", fields |-> << >>]

\* contexts of the allowed shape
GoodContexts ==
  {NoContext,
   ContextObject(<< >>),
   ContextObject(("userId" :> "string") @@ ("sessionId" :> "string")),
   ContextObject(("nlwebResults" :> "array") @@ ("userId" :> "string"))}

\* contexts that querySchema.context rejects
BadContexts ==
  {[t |-> "string", fields |-> << >>],
   ContextObject("role" :> "string"),
   ContextObject("userId" :> "number")}

Contexts == GoodContexts \cup BadContexts

ValidatorInputs ==
  {[query |-> q, context |-> NoContext] : q \in ValidatorQueries}
    \cup {[query |-> q, context |-> c] : q \in ContextQueries, c \in Contexts}

ProcessContexts ==
  {NoContext,
   ContextObject(("nlwebResults" :> "array") @@ ("userId" :> "string")),
   [t |-> "string", fields |-> << >>]}

EnvOf(model, maxTokens, temperature) ==
  [OPENAI_MODEL |-> model, OPENAI_MAX_TOKENS |-> maxTokens,
   OPENAI_TEMPERATURE |-> temperature]

NoEnv == EnvOf(Undefined, Undefined, Undefined)

\* the environments under which the constructor of QueryService succeeds
Envs ==
  {e \in {EnvOf(m, k, t) : m \in {Undefined, Str(""), Str("gpt-4o")},
                           k \in {Undefined, Str("256"), Str("5000")},
                           t \in {Undefined, Str("0.25")}} :
     validateConfig(getOptimizedConfig(Undefined, e))}

ProcessEnvs ==
  {NoEnv,
   EnvOf(Str("gpt-4o"), Undefined, Str("0.25")),
   EnvOf(Str(""), Str("256"), Undefined)}

UseCases ==
  {Undefined, Str("fast"), Str("quality"), Str("creative"), Str("analytical"),
   Str("FAST"), Str("other")}

\* completion.choices[0]?.message?.content of a resolved remote call
ReplyContents ==
  {Undefined, Null, Str(""), Str(" "), Str("Paris"), Str(" Paris is the capital. \n")}

\* completion.usage?.total_tokens
ReplyTokens == {[t |-> "undefined", n |-> 0], [t |-> "number", n |-> 15]}

\* the statuses of a rejected remote call
RemoteStatuses == {400, 401, 403, 429, 500, 503}

RemoteReplies ==
  {r \in {[t |-> "resolve", content |-> c, tokens |-> k, error |-> RemoteError(FALSE, 0)] :
             c \in ReplyContents, k \in ReplyTokens} :
     r.tokens.t = "undefined" \/ Truthy(r.content)}
    \cup
  {[t |-> "reject", content |-> Undefined, tokens |-> [t |-> "undefined", n |-> 0],
   error |-> RemoteError(TRUE, st)] :
      st \in RemoteStatuses}
    \cup
  {[t |-> "reject", content |-> Undefined, tokens |-> [t |-> "undefined", n |-> 0],
   error |-> RemoteError(FALSE, 0)]}

\* ------------------------------------------------------------------------
\* State
\* ------------------------------------------------------------------------
VARIABLES
  contentIndex,   \* NLWebService.contentIndex: the indexed documents
  vectorStore,    \* NLWebService.vectorStore: the contents by identifier
  op,             \* the operation called last
  args,           \* its arguments
  ret,            \* its outcome: pending, return (v) or throw (e)
  pc,             \* position of the processQuery invocation
  validation,     \* processQuery: outcome of validateQueryInput
  enrichedQuery,  \* processQuery: the local enrichedQuery
  config,         \* processQuery: the local config
  env,            \* processQuery: the environment getOptimizedConfig read
  searchCalls,    \* searches of the index made by the invocation
  remoteCalls,    \* requests sent to the remote model by the invocation
  reply,          \* the remote reply the invocation received
  calls,          \* the ask invocations in flight, each with its locals
  messages,       \* AIChatApp: the children of messagesContainer
  isLoading,      \* AIChatApp.isLoading
  inputValue,     \* AIChatApp: queryInput.value
  fetching,       \* AIChatApp: the query of the handleSubmit awaiting sendQuery
  timers          \* AIChatApp: the pending setTimeout callbacks of handleSubmit

vars == << contentIndex, vectorStore, op, args, ret, pc, validation, enrichedQuery, config,
           env, searchCalls, remoteCalls, reply, calls, messages, isLoading, inputValue,
           fetching, timers >>

\* the state of the chat page
chat == << messages, isLoading, inputValue, fetching, timers >>

\* the state of the NLWebService
nlweb == << contentIndex, vectorStore >>

None == [t |-> "none"]
Pending == [t |-> "pending"]

\* the random suffixes of the identifiers the constructor drew, in one of
\* its outcomes
SeedSuffixes == << "a1b2c3d4e", "f5g6h7i8j", "k9l0m1n2o" >>

\* the index after initializeDefaultContent: the three ingestions run within
\* the constructor, here within one clock reading
SeedIndex ==
  [k \in 1..Len(SeedContent) |->
     [id |-> ContentId(0, SeedSuffixes[k]), content |-> SeedContent[k]]]

\* the state of the service after construction
Init ==
  /\ contentIndex = SeedIndex
  /\ vectorStore = [id \in {SeedIndex[k].id : k \in 1..Len(SeedIndex)} |->
                      SeedIndex[CHOOSE k \in 1..Len(SeedIndex) : SeedIndex[k].id = id].content]
  /\ op = "none"
  /\ args = None
  /\ ret = None
  /\ pc = "idle"
  /\ validation = None
  /\ enrichedQuery = ""
  /\ config = None
  /\ env = None
  /\ searchCalls = 0
  /\ remoteCalls = << >>
  /\ reply = None
  /\ calls = << >>
  /\ messages = << >>
  /\ isLoading = FALSE
  /\ inputValue = ""
  /\ fetching = None
  /\ timers = << >>

\* no call is in flight and the outcome of the last one has been taken
Idle == op = "none"

\* the locals of a processQuery invocation, when there is none
NoInvocation ==
  /\ pc' = "idle"
  /\ validation' = None
  /\ enrichedQuery' = ""
  /\ config' = None
  /\ env' = None
  /\ searchCalls' = 0
  /\ remoteCalls' = << >>
  /\ reply' = None

\* ------------------------------------------------------------------------
\* Direct calls of the pure functions
\* ------------------------------------------------------------------------
CallValidateQueryInput(input) ==
  /\ Idle
  /\ op' = "validateQueryInput"
  /\ args' = input
  /\ ret' = validateQueryInput(input)
  /\ NoInvocation
  /\ UNCHANGED << nlweb, calls, chat, calls, chat >>

CallGetQueryType(query) ==
  /\ Idle
  /\ op' = "getQueryType"
  /\ args' = [query |-> query]
  /\ ret' = Return(getQueryType(query))
  /\ NoInvocation
  /\ UNCHANGED << nlweb, calls, chat, calls, chat >>

CallGetOptimizedConfig(useCase, e) ==
  /\ Idle
  /\ op' = "getOptimizedConfig"
  /\ args' = [useCase |-> useCase, env |-> e]
  /\ ret' = Return(getOptimizedConfig(useCase, e))
  /\ NoInvocation
  /\ UNCHANGED << nlweb, calls, chat, calls, chat >>

\* ------------------------------------------------------------------------
\* services/queryService.ts: processQuery
\* ------------------------------------------------------------------------
\* processQueryCatch with the server-fault test `status > 500`
processQueryCatch_Above500(error) ==
  IF IsOpenAIError(error) THEN error
  ELSE IF error.hasStatus /\ error.status = 401
         THEN OpenAIError("Invalid OpenAI API key")
  ELSE IF error.hasStatus /\ error.status = 429
         THEN OpenAIError("OpenAI API rate limit exceeded")
  ELSE IF error.hasStatus /\ error.status > 500
         THEN OpenAIError("OpenAI API service error")
  ELSE OpenAIError("Failed to process query with OpenAI API")

\* the catch block: the error processQuery throws for a caught error
processQueryCatch(error) ==
  IF IsOpenAIError(error) THEN error
  ELSE IF error.hasStatus /\ error.status = 401
         THEN OpenAIError("Invalid OpenAI API key")
  ELSE IF error.hasStatus /\ error.status = 429
         THEN OpenAIError("OpenAI API rate limit exceeded")
  ELSE IF error.hasStatus /\ error.status >= 500
         THEN OpenAIError("OpenAI API service error")
  ELSE OpenAIError("Failed to process query with OpenAI API")

\* the request of openai.chat.completions.create
RemoteRequest(cfg, userContent) ==
  [model |-> cfg.model, system |-> "getSystemPrompt", user |-> userContent,
   max_tokens |-> cfg.maxTokens, temperature |-> cfg.temperature,
   top_p |-> cfg.topP, frequency_penalty |-> cfg.frequencyPenalty,
   presence_penalty |-> cfg.presencePenalty]

\* the value processQuery returns for the remote text response
processQueryResult(cfg, response, tokens) ==
  [text |-> trim(response),
   metadata |-> [model |-> cfg.model, tokensUsed |-> tokens,
                 config |-> [temperature |-> cfg.temperature, topP |-> cfg.topP,
                             maxTokens |-> cfg.maxTokens]]]

\* ProcessQueryValidate with the index searched before the validation
ProcessQueryValidate_SearchFirst(userQuery, context) ==
  /\ Idle
  /\ op' = "processQuery"
  /\ args' = [query |-> Str(userQuery), context |-> context]
  /\ validation' = validateQueryInput([query |-> Str(userQuery), context |-> context])
  /\ searchCalls' = 1
  /\ IF validation'.t = "throw"
       THEN /\ ret' = Throw(processQueryCatch(validation'.e))
            /\ pc' = "done"
       ELSE /\ ret' = Pending
            /\ pc' = "enrich"
  /\ enrichedQuery' = ""
  /\ config' = None
  /\ env' = None
  /\ remoteCalls' = << >>
  /\ reply' = None
  /\ UNCHANGED << nlweb, calls, chat, calls, chat >>

\* processQuery(userQuery, context) is called: validateQueryInput
ProcessQueryValidate(userQuery, context) ==
  /\ Idle
  /\ op' = "processQuery"
  /\ args' = [query |-> Str(userQuery), context |-> context]
  /\ LET v == validateQueryInput([query |-> Str(userQuery), context |-> context])
     IN  /\ validation' = v
         /\ IF v.t = "throw"
              THEN /\ ret' = Throw(processQueryCatch(v.e))
                   /\ pc' = "done"
              ELSE /\ ret' = Pending
                   /\ pc' = "enrich"
  /\ enrichedQuery' = ""
  /\ config' = None
  /\ env' = None
  /\ searchCalls' = 0
  /\ remoteCalls' = << >>
  /\ reply' = None
  /\ UNCHANGED << nlweb, calls, chat, calls, chat >>

\* await this.enrichWithNLWeb(validatedQuery, context)
ProcessQueryEnrich ==
  /\ pc = "enrich"
  /\ enrichedQuery' = enrichWithNLWeb(contentIndex, validation.v)
  /\ searchCalls' = searchCalls + 1
  /\ pc' = "call"
  /\ UNCHANGED << nlweb, calls, chat, op, args, ret, validation, config, env, remoteCalls, reply >>

\* getOptimizedConfig(this.getQueryType(userQuery)) and the start of the
\* remote call, under the environment e
ProcessQueryCall(e) ==
  /\ pc = "call"
  /\ env' = e
  /\ config' = getOptimizedConfig(Str(getQueryType(args.query.s)), e)
  /\ remoteCalls' = Append(remoteCalls, RemoteRequest(config', enrichedQuery))
  /\ pc' = "await"
  /\ UNCHANGED << nlweb, calls, chat, op, args, ret, validation, enrichedQuery, searchCalls, reply >>

\* the remote call resolves with a completion
ProcessQueryResolve(r) ==
  /\ pc = "await"
  /\ r.t = "resolve"
  /\ reply' = r
  /\ ret' = IF ~Truthy(r.content)
              THEN Throw(processQueryCatch(OpenAIError("No response received from OpenAI API")))
              ELSE Return(processQueryResult(config, r.content.s, r.tokens))
  /\ pc' = "done"
  /\ UNCHANGED << nlweb, calls, chat, op, args, validation, enrichedQuery, config, env,
                  searchCalls, remoteCalls >>

\* ProcessQueryReject with the request sent once more after a rejection
ProcessQueryReject_Retry(r) ==
  /\ pc = "await"
  /\ r.t = "reject"
  /\ reply' = r
  /\ IF Len(remoteCalls) < 2
       THEN /\ remoteCalls' = Append(remoteCalls, remoteCalls[1])
            /\ pc' = "await"
            /\ ret' = ret
       ELSE /\ remoteCalls' = remoteCalls
            /\ pc' = "done"
            /\ ret' = Throw(processQueryCatch(r.error))
  /\ UNCHANGED << nlweb, calls, chat, op, args, validation, enrichedQuery, config, env, searchCalls >>

\* the remote call rejects
ProcessQueryReject(r) ==
  /\ pc = "await"
  /\ r.t = "reject"
  /\ reply' = r
  /\ ret' = Throw(processQueryCatch(r.error))
  /\ pc' = "done"
  /\ UNCHANGED << nlweb, calls, chat, op, args, validation, enrichedQuery, config, env,
                  searchCalls, remoteCalls >>

\* the caller takes the outcome of the call it made
TakeOutcome ==
  /\ ret.t \in {"return", "throw"}
  /\ op' = "none"
  /\ args' = None
  /\ ret' = None
  /\ NoInvocation
  /\ UNCHANGED << nlweb, calls, chat, calls, chat >>

Next ==
  \/ \E input \in ValidatorInputs : CallValidateQueryInput(input)
  \/ \E q \in ClassifierInputs : CallGetQueryType(q)
  \/ \E u \in UseCases, e \in Envs : CallGetOptimizedConfig(u, e)
  \/ \E q \in ProcessQueries, c \in ProcessContexts : ProcessQueryValidate(q, c)
  \/ ProcessQueryEnrich
  \/ \E e \in ProcessEnvs : ProcessQueryCall(e)
  \/ \E r \in RemoteReplies : ProcessQueryResolve(r)
  \/ \E r \in RemoteReplies : ProcessQueryReject(r)
  \/ TakeOutcome

Spec == Init /\ [][Next]_vars

\* ------------------------------------------------------------------------
\* services/nlwebService.ts: the operations on the content index
\* ------------------------------------------------------------------------
\* number of ingestions after the construction
MaxIngests == 1

\* the metadata { type: ... } of the tests: none of url, title, description
TypeOnlyMetadata == Metadata(Undefined, Undefined, Undefined)

\* contents with their metadata, handed to ingestContent
IngestInputs ==
  {[content |-> "{\"@type\":\"Article\",\"name\":\"Test\",\"description\":\"AI is useful.\",\"url\":\"https://x\"}",
    metadata |-> NoMetadata],
   [content |-> "{ invalid json }", metadata |-> TypeOnlyMetadata],
   [content |-> "Plain text about dragons. It is short!",
    metadata |-> Metadata(Str("https://example.com/text"), Str("AI Dragons Guide"),
                          Str("a text"))],
   [content |-> "{\"type\":\"Thing\",\"name\":7,\"description\":\"Seven dragons\"}",
    metadata |-> NoMetadata],
   [content |-> "{\"type\":\"Thing\",\"name\":\"Dragons\",\"description\":5}",
    metadata |-> TypeOnlyMetadata],
   [content |-> SeedContent[1].content.s, metadata |-> TypeOnlyMetadata]}

\* contents and metadata handed to parseContent
ParseContents ==
  {i.content : i \in IngestInputs}
    \cup {"", "null", " 12 ", "\"just a string\"", "{ \"unclosed\": \"object\"",
          "{}", "{\"type\":\"\",\"title\":\"Test Document\",\"content\":\"text\"}",
          "{\"type\":true,\"title\":\"From title\",\"url\":\"\"}",
          "{\"name\":\"first\", \"@type\":\"A\" ,\"name\":\"second\"}",
          "{\"a\":01}", "{\"a\":\"b\"} x"}

ParseMetadata ==
  {NoMetadata, TypeOnlyMetadata,
   Metadata(Str("https://example.com/text"), Str("Plain Text Document"), Undefined),
   Metadata(Str(""), NumberOf("7"), Str("described"))}

\* the arguments of the direct calls of parseContent
ParseInputs ==
  IngestInputs
    \cup {[content |-> c, metadata |-> NoMetadata] : c \in ParseContents}
    \cup {[content |-> c, metadata |-> m] :
            c \in {"", "{}", "{\"type\":true,\"title\":\"From title\",\"url\":\"\"}"},
            m \in ParseMetadata}

\* the random suffixes an ingestion draws: the first seed's, and another
IngestSuffixes == {SeedSuffixes[1], "p3q4r5s6t"}

\* Date.now() of an ingestion: the reading of the ingestion before it, or a
\* later one
DateNow(index, later) == index[Len(index)].id.time + (IF later THEN 1 ELSE 0)

\* the questions asked of the index
IndexQuestions ==
  {"What is AI?", "dragons", "AI", "dragons guide", "Tell me about AI development",
   "", "is it ok"}

\* the result caps of ask, 0 for none
AskCaps == {0, 1, 2}

\* the MCP requests that ingest nothing
MCPRequests ==
  {MCPRequest("ask", q, k, Undefined, NoMetadata, Undefined, 0) :
     q \in {Undefined, Str(""), Str("dragons"), Str("development"), Str("AI")},
     k \in {0, 1}}
    \cup
  {MCPRequest("search", Undefined, 0, Undefined, NoMetadata, q, k) :
     q \in {Undefined, Str(""), Str("dragons"), Str("Untitled"), Str("AI"),
            Str("Tell me about dragons today")},
     k \in {0, 1}}
    \cup
  {MCPRequest(m, Str("dragons"), 1, c, NoMetadata, Str("dragons"), 1) :
     m \in {"ingest", "health", "invalidMethod", "ASK", ""}, c \in {Undefined, Str("")}}

\* the MCP requests that ingest
MCPIngestRequests ==
  {MCPRequest("ingest", Undefined, 0, Str(i.content), i.metadata, Undefined, 0) :
     i \in IngestInputs}

\* the questions handed to processQuery over the grown index
IndexQueries == {"dragons", "What is AI?", "development", "of it"}

\* the outcomes of the remote call over the grown index
IndexReplies ==
  {r \in RemoteReplies :
     \/ (r.t = "resolve" /\ r.content = Str("Paris") /\ r.tokens.t = "number")
     \/ (r.t = "reject" /\ r.error.hasStatus /\ r.error.status = 503)}

\* the private parseContent, called directly
CallParseContent(content, metadata) ==
  /\ Idle
  /\ op' = "parseContent"
  /\ args' = [content |-> content, metadata |-> metadata]
  /\ ret' = parseContent(content, metadata)
  /\ NoInvocation
  /\ UNCHANGED << nlweb, calls, chat, calls, chat >>

\* the index, the store and the outcome of an ingestion
Ingested(ingested) ==
  /\ contentIndex' = ingested.index
  /\ vectorStore' = ingested.store
  /\ ret' = IF ingested.t = "throw" THEN Throw(ingested.e) ELSE Return(ingested.v)

\* ingestContent(content, metadata)
IngestContent(content, metadata, later, suffix) ==
  /\ Idle
  /\ Len(contentIndex) < Len(SeedIndex) + MaxIngests
  /\ op' = "ingestContent"
  /\ args' = [content |-> content, metadata |-> metadata]
  /\ Ingested(ingestContent(contentIndex, vectorStore, content, metadata,
                            ContentId(DateNow(contentIndex, later), suffix)))
  /\ NoInvocation
  /\ UNCHANGED << calls, chat >>

\* ask(query)
Ask(question, maxResults) ==
  /\ Idle
  /\ op' = "ask"
  /\ args' = [question |-> question, maxResults |-> maxResults]
  /\ ret' = ask(contentIndex, [question |-> question, maxResults |-> maxResults])
  /\ NoInvocation
  /\ UNCHANGED << nlweb, calls, chat, calls, chat >>

\* the index, the store and the response of an MCP request
MCPHandled(handled) ==
  /\ contentIndex' = handled.index
  /\ vectorStore' = handled.store
  /\ ret' = Return(handled.response)

\* handleMCP(request)
HandleMCP(request, later, suffix) ==
  /\ Idle
  /\ (request.method = "ingest" /\ Truthy(request.content))
       => Len(contentIndex) < Len(SeedIndex) + MaxIngests
  /\ op' = "handleMCP"
  /\ args' = request
  /\ MCPHandled(handleMCP(contentIndex, vectorStore, request,
                          ContentId(DateNow(contentIndex, later), suffix)))
  /\ NoInvocation
  /\ UNCHANGED << calls, chat >>

\* getHealth()
GetHealth ==
  /\ Idle
  /\ op' = "getHealth"
  /\ args' = None
  /\ ret' = Return(getHealth(contentIndex))
  /\ NoInvocation
  /\ UNCHANGED << nlweb, calls, chat, calls, chat >>

IndexNext ==
  \/ \E i \in ParseInputs : CallParseContent(i.content, i.metadata)
  \/ \E i \in IngestInputs, later \in BOOLEAN, x \in IngestSuffixes :
        IngestContent(i.content, i.metadata, later, x)
  \/ \E q \in IndexQuestions, k \in AskCaps : Ask(q, k)
  \/ \E request \in MCPRequests : HandleMCP(request, FALSE, SeedSuffixes[1])
  \/ \E request \in MCPIngestRequests, later \in BOOLEAN, x \in IngestSuffixes :
        HandleMCP(request, later, x)
  \/ GetHealth
  \/ \E q \in IndexQueries : ProcessQueryValidate(q, NoContext)
  \/ ProcessQueryEnrich
  \/ ProcessQueryCall(NoEnv)
  \/ \E r \in IndexReplies : ProcessQueryResolve(r)
  \/ \E r \in IndexReplies : ProcessQueryReject(r)
  \/ TakeOutcome

\* the content index service and the query pipeline over it
IndexSpec == Init /\ [][IndexNext]_vars

\* ------------------------------------------------------------------------
\* routes/query.ts: queryHandler, the handler of POST /api/query
\* ------------------------------------------------------------------------
AuthenticationError(message) == APIError("AuthenticationError", message, 401)

RateLimitError(message) == APIError("RateLimitError", message, 429)

\* req.body was not parsed: `const { query, context } = req.body` throws
DestructureError ==
  [name |-> "TypeError",
   message |-> "Cannot destructure property 'query' of 'req.body' as it is undefined.",
   statusCode |-> 0, hasStatus |-> FALSE, status |-> 0]

\* `error instanceof APIError`: the class and its subclasses
IsAPIError(e) ==
  e.name \in {"APIError", "ValidationError", "AuthenticationError", "RateLimitError",
              "OpenAIError"}

\* sanitizeErrorMessage(error), with NODE_ENV === 'production' or not
sanitizeErrorMessage(error, production) ==
  IF IsAPIError(error) THEN error.message
  ELSE IF production THEN "An unexpected error occurred"
  ELSE IF error.message # "" THEN error.message
  ELSE "Unknown error"

\* res.status(status).json(body)
HttpResponse(status, body) ==
  [t |-> "response", v |-> [status |-> status, body |-> body]]

\* the catch block of queryHandler: the response for a caught error
queryHandlerCatch(error, production) ==
  IF error.name = "AuthenticationError"
    THEN HttpResponse(401, [error |-> "Authentication Error",
                            message |-> sanitizeErrorMessage(error, production)])
  ELSE IF error.name = "RateLimitError"
    THEN HttpResponse(429, [error |-> "Rate Limit Exceeded",
                            message |-> sanitizeErrorMessage(error, production)])
  ELSE IF IsAPIError(error)
    THEN HttpResponse(error.statusCode,
                      [error |-> error.name,
                       message |-> sanitizeErrorMessage(error, production)])
  ELSE HttpResponse(500, [error |-> "Internal Server Error",
                          message |-> sanitizeErrorMessage(error, production)])

\* the response to a request without a query string
BadRequestResponse ==
  HttpResponse(400, [error |-> "Bad Request",
                     message |-> "Query parameter is required and must be a string"])

\* res.json({ success: true, response: result.text, metadata })
SuccessResponse(result) ==
  HttpResponse(200, [success |-> TRUE, response |-> result.text,
                     metadata |-> result.metadata])

\* the request bodies: absent, or an object with a query and a context
NoBody == [t |-> "undefined"]
Body(query, context) == [t |-> "object", query |-> query, context |-> context]

\* the arguments of a queryHandler call, with those of the processQuery
\* call it makes (query, context)
HandlerArgs(body, production, query, context) ==
  [body |-> body, production |-> production, query |-> query, context |-> context]

\* the step of queryHandler that responds without a call of processQuery
HandlerResponds(body, production, response) ==
  /\ args' = HandlerArgs(body, production, Undefined, NoContext)
  /\ ret' = response
  /\ pc' = "responded"
  /\ validation' = None

\* queryHandler calls processQuery(validatedQuery, context), which validates
\* its arguments
HandlerCallsProcessQuery(body, production, validatedQuery, second) ==
  /\ args' = HandlerArgs(body, production, Str(validatedQuery), body.context)
  /\ validation' = second
  /\ IF second.t = "throw"
       THEN /\ ret' = Throw(processQueryCatch(second.e))
            /\ pc' = "done"
       ELSE /\ ret' = Pending
            /\ pc' = "enrich"

\* queryHandler with the validated value of the first validation taken as
\* the outcome of the second
QueryHandlerValidated_Once(body, production, first) ==
  IF first.t = "throw"
    THEN HandlerResponds(body, production, queryHandlerCatch(first.e, production))
    ELSE HandlerCallsProcessQuery(body, production, first.v,
           Return(IF body.query.t = "string" THEN body.query.s ELSE ""))

\* queryHandler after the basic validation: validateQueryInput, then the
\* call of processQuery
QueryHandlerValidated(body, production, first) ==
  IF first.t = "throw"
    THEN HandlerResponds(body, production, queryHandlerCatch(first.e, production))
    ELSE HandlerCallsProcessQuery(body, production, first.v,
           validateQueryInput([query |-> Str(first.v), context |-> body.context]))

\* POST /api/query arrives: queryHandler(req, res) up to its await
QueryHandlerStart(body, production) ==
  /\ Idle
  /\ op' = "queryHandler"
  /\ IF body.t = "undefined"
       THEN HandlerResponds(body, production, queryHandlerCatch(DestructureError, production))
       ELSE IF ~Truthy(body.query) \/ body.query.t # "string"
         THEN HandlerResponds(body, production, BadRequestResponse)
         ELSE QueryHandlerValidated(body, production,
                validateQueryInput([query |-> body.query, context |-> body.context]))
  /\ enrichedQuery' = ""
  /\ config' = None
  /\ env' = None
  /\ searchCalls' = 0
  /\ remoteCalls' = << >>
  /\ reply' = None
  /\ UNCHANGED << nlweb, calls, chat, calls, chat >>

\* the await of processQuery ends and queryHandler responds
QueryHandlerRespond ==
  /\ op = "queryHandler"
  /\ pc = "done"
  /\ ret' = IF ret.t = "return" THEN SuccessResponse(ret.v)
            ELSE queryHandlerCatch(ret.e, args.production)
  /\ pc' = "responded"
  /\ UNCHANGED << nlweb, calls, chat, op, args, validation, enrichedQuery, config, env,
                  searchCalls, remoteCalls, reply >>

\* the client takes the response
ResponseSent ==
  /\ ret.t = "response"
  /\ op' = "none"
  /\ args' = None
  /\ ret' = None
  /\ NoInvocation
  /\ UNCHANGED << nlweb, calls, chat, calls, chat >>

\* the values of req.body.query
RouteQueries ==
  {Str(q) : q \in {"What is the capital of France?", "Write a story about dragons",
                   "Analyze the data trends", "<script>alert(\"xss\")</script>",
                   "", " ", " hi ", "  What is AI?  ", " <script>x</script> "}}
    \cup {Str(Repeat(" ", l) \o Repeat("a", n) \o Repeat(" ", l)) :
            l \in {0, LengthSlack},
            n \in {MaxQueryLength - LengthSlack, MaxQueryLength,
                   MaxQueryLength + LengthSlack}}
    \cup {Undefined, Num}

RouteBodies ==
  {NoBody} \cup {Body(q, c) : q \in RouteQueries, c \in ProcessContexts}

RouteReplies == {r \in RemoteReplies : r.tokens.t = "undefined"}

RouteNext ==
  \/ \E b \in RouteBodies, production \in BOOLEAN : QueryHandlerStart(b, production)
  \/ ProcessQueryEnrich
  \/ ProcessQueryCall(NoEnv)
  \/ \E r \in RouteReplies : ProcessQueryResolve(r)
  \/ \E r \in RouteReplies : ProcessQueryReject(r)
  \/ QueryHandlerRespond
  \/ ResponseSent

RouteSpec == Init /\ [][RouteNext]_vars

\* ------------------------------------------------------------------------
\* services/nlwebService.ts: ask invocations in flight while documents are
\* ingested. An async function runs to its first await when it is called and
\* from an await to the next when it is resumed; search, generateAnswer and
\* ingestContent have no await, and ask has two.
\* ------------------------------------------------------------------------
MaxCalls == 2

\* the locals of an ask invocation: its query, its position, the search
\* results, and the length the index had when it was searched
AskCall(question, maxResults, position, searchResults, indexLength, outcome) ==
  [question |-> question, maxResults |-> maxResults, pc |-> position,
   searchResults |-> searchResults, indexLength |-> indexLength, out |-> outcome]

\* ask(query) is called: it runs to `await this.search(...)`, the search
\* included
AskStart(question, maxResults) ==
  /\ Len(calls) < MaxCalls
  /\ calls' = Append(calls,
                     AskCall(question, maxResults, "answer",
                             search(contentIndex, question,
                                    IF maxResults # 0 THEN maxResults ELSE 5),
                             Len(contentIndex), Pending))
  /\ UNCHANGED << nlweb, chat, op, args, ret, pc, validation, enrichedQuery, config, env,
                  searchCalls, remoteCalls, reply >>

\* the invocation c is resumed with the search results and runs to
\* `await this.generateAnswer(...)`
AskAnswer(c) ==
  /\ c \in 1..Len(calls)
  /\ calls[c].pc = "answer"
  /\ calls' = [calls EXCEPT ![c].pc = "respond"]
  /\ UNCHANGED << nlweb, chat, op, args, ret, pc, validation, enrichedQuery, config, env,
                  searchCalls, remoteCalls, reply >>

\* the invocation c is resumed with the answer, builds the response from its
\* search results and returns it, or throws
AskRespond(c) ==
  /\ c \in 1..Len(calls)
  /\ calls[c].pc = "respond"
  /\ calls' = [calls EXCEPT ![c].pc = "done",
                            ![c].out = AskOutcome([question |-> calls[c].question,
                                                   maxResults |-> calls[c].maxResults],
                                                  calls[c].searchResults)]
  /\ UNCHANGED << nlweb, chat, op, args, ret, pc, validation, enrichedQuery, config, env,
                  searchCalls, remoteCalls, reply >>

\* the caller of the invocation c takes its outcome
AskTaken(c) ==
  /\ c \in 1..Len(calls)
  /\ calls[c].pc = "done"
  /\ calls' = SubSeq(calls, 1, c - 1) \o SubSeq(calls, c + 1, Len(calls))
  /\ UNCHANGED << nlweb, chat, op, args, ret, pc, validation, enrichedQuery, config, env,
                  searchCalls, remoteCalls, reply >>

\* the questions asked while documents are ingested
ConcurrentQuestions == {"dragons", "Tell me about AI development"}

\* the documents ingested meanwhile
ConcurrentInputs ==
  {i \in IngestInputs :
     i.content \in {"Plain text about dragons. It is short!",
                    "{\"type\":\"Thing\",\"name\":\"Dragons\",\"description\":5}"}}

ConcurrentNext ==
  \/ \E q \in ConcurrentQuestions : AskStart(q, 0)
  \/ \E c \in 1..MaxCalls : AskAnswer(c)
  \/ \E c \in 1..MaxCalls : AskRespond(c)
  \/ \E c \in 1..MaxCalls : AskTaken(c)
  \/ \E i \in ConcurrentInputs : IngestContent(i.content, i.metadata, TRUE, SeedSuffixes[1])
  \/ TakeOutcome

ConcurrentSpec == Init /\ [][ConcurrentNext]_vars

\* ------------------------------------------------------------------------
\* public/app.js: AIChatApp.handleSubmit, the chat page
\* ------------------------------------------------------------------------
MaxSubmits == 2

\* a child of messagesContainer, with the number of the handleSubmit
\* invocation that appended it
Message(kind, text, n) == [kind |-> kind, text |-> text, n |-> n]

\* addMessage(content, className)
addMessage(list, content, className, n) ==
  Append(list, Message(IF className = "user-message" THEN "user" ELSE "bot", content, n))

\* addErrorMessage(message)
addErrorMessage(list, message, n) == Append(list, Message("error", message, n))

\* addTypingIndicator()
addTypingIndicator(list, n) == Append(list, Message("typing", "", n))

\* removeTypingIndicator(indicator)
removeTypingIndicator(list, n) ==
  SelectSeq(list, LAMBDA m : ~(m.kind = "typing" /\ m.n = n))

\* the number of the handleSubmit invocations that went past the guards
Submitted(list) == Cardinality({i \in 1..Len(list) : list[i].kind = "user"})

\* the outcomes of fetch and response.json() in sendQuery: the status, and
\* the success, response and message of the body
FetchOutcome(ok, status, success, response, message) ==
  [ok |-> ok, status |-> status, success |-> success, response |-> response,
   message |-> message]

\* the message of the error sendQuery throws when the response is not ok
sendQueryError(r) ==
  IF r.message # "" THEN r.message
  ELSE "HTTP error! status: " \o (CASE r.status = 400 -> "400"
                                    [] r.status = 502 -> "502"
                                    [] OTHER -> "500")

\* handleSubmit(), the input holding text, up to `await this.sendQuery(query)`
HandleSubmit(text) ==
  /\ IF isLoading \/ trim(text) = ""
       THEN /\ inputValue' = text
            /\ UNCHANGED << messages, isLoading, fetching >>
       ELSE /\ Submitted(messages) < MaxSubmits
            /\ messages' = addTypingIndicator(
                             addMessage(messages, trim(text), "user-message",
                                        Submitted(messages) + 1),
                             Submitted(messages) + 1)
            /\ inputValue' = ""
            /\ isLoading' = TRUE
            /\ fetching' = [t |-> "fetch", query |-> trim(text),
                            n |-> Submitted(messages) + 1]
  /\ UNCHANGED << nlweb, calls, timers, op, args, ret, pc, validation, enrichedQuery,
                  config, env, searchCalls, remoteCalls, reply >>

\* sendQuery returns or throws and handleSubmit runs to its end: the bot
\* message is left to a timer of 300 ms, an error message is added at once,
\* and setLoading(false) in either case
SendQueryReturns(r) ==
  /\ fetching.t = "fetch"
  /\ IF ~r.ok
       THEN /\ messages' = addErrorMessage(messages, sendQueryError(r), fetching.n)
            /\ timers' = timers
       ELSE IF r.success
         THEN /\ messages' = removeTypingIndicator(messages, fetching.n)
              /\ timers' = Append(timers, [n |-> fetching.n, response |-> r.response])
         ELSE /\ messages' = addErrorMessage(removeTypingIndicator(messages, fetching.n),
                                             IF r.message # "" THEN r.message
                                             ELSE "Unknown error",
                                             fetching.n)
              /\ timers' = timers
  /\ isLoading' = FALSE
  /\ fetching' = None
  /\ UNCHANGED << nlweb, calls, inputValue, op, args, ret, pc, validation, enrichedQuery,
                  config, env, searchCalls, remoteCalls, reply >>

\* the timer set first expires: this.addMessage(response.response, 'bot-message')
TimerFires ==
  /\ Len(timers) > 0
  /\ messages' = addMessage(messages, timers[1].response, "bot-message", timers[1].n)
  /\ timers' = Tail(timers)
  /\ UNCHANGED << nlweb, calls, isLoading, inputValue, fetching, op, args, ret, pc,
                  validation, enrichedQuery, config, env, searchCalls, remoteCalls, reply >>

\* the texts of the input when it is submitted
ChatInputs == {"", " ", "hi", " What is AI? "}

ChatReplies ==
  {FetchOutcome(TRUE, 200, TRUE, "Paris", ""),
   FetchOutcome(TRUE, 200, FALSE, "", ""),
   FetchOutcome(FALSE, 400, FALSE, "", "Query parameter is required and must be a string"),
   FetchOutcome(FALSE, 502, FALSE, "", "")}

ChatNext ==
  \/ \E text \in ChatInputs : HandleSubmit(text)
  \/ \E r \in ChatReplies : SendQueryReturns(r)
  \/ TimerFires

ChatSpec == Init /\ [][ChatNext]_vars

\* ------------------------------------------------------------------------
\* Properties
\* ------------------------------------------------------------------------
\* a processQuery invocation has ended
ProcessQueryDone == op = "processQuery" /\ pc = "done"

\* the lower-cased question has a maximal run of word characters that is one
\* of the words W
HasKeyword(q, W) ==
  \E i \in 1..Len(q) : \E j \in i..Len(q) :
     /\ \A k \in i..j : IsWordAt(q, k)
     /\ ~IsWordAt(q, i - 1)
     /\ ~IsWordAt(q, j + 1)
     /\ toLowerCase(SubSeq(q, i, j)) \in W

\* the generic question heuristic: a '?' or a wh-word
LooksLikeQuestion(q) == includes(q, "?") \/ HasKeyword(q, QuestionWords)

\* the named profile of a query type
NamedProfile(type) ==
  CASE type = "creative" -> CREATIVE_CONFIG
    [] type = "analytical" -> ANALYTICAL_CONFIG
    [] type = "quality" -> QUALITY_CONFIG
    [] type = "fast" -> FAST_CONFIG

\* the sub-kind of a remote-service error: the OpenAIError instances differ
\* by their message only
SubKind(e) ==
  CASE e.message = "Invalid OpenAI API key" -> "unauthorized"
    [] e.message = "OpenAI API rate limit exceeded" -> "rate-limited"
    [] e.message = "OpenAI API service error" -> "upstream-unavailable"
    [] OTHER -> "generic"

\* C1 (as claimed): when the question of a processQuery invocation fails
\* validation, the error that reaches the caller is a ValidationError.
C1_ValidationErrorReachesCaller ==
  (ProcessQueryDone /\ validation.t = "throw")
    => (ret.t = "throw" /\ ret.e.name = "ValidationError")

\* C2: in a processQuery invocation whose question fails validation, the
\* invocation ends with a failure and neither a search of the content index
\* nor a remote call is made.
C2_InvalidQuestionNoSearchNoRemoteCall ==
  (op = "processQuery" /\ validation.t = "throw")
    => (pc = "done" /\ ret.t = "throw" /\ searchCalls = 0 /\ remoteCalls = << >>)

C2_Witness ==
  /\ ProcessQueryDone
  /\ args.query.s = ""
  /\ validation.t = "throw"
  /\ ret.t = "throw"

\* C3: when the remote call fails, processQuery returns nothing and throws a
\* remote-service error whose sub-kind follows the remote status: 401
\* unauthorized, 429 rate-limited, 500 and above upstream-unavailable, any
\* other failure (also one without a status) generic.
C3_RemoteFailureSubKind ==
  (ProcessQueryDone /\ reply.t = "reject")
    => /\ ret.t = "throw"
       /\ ret.e.name = "OpenAIError"
       /\ SubKind(ret.e) =
            (IF reply.error.hasStatus /\ reply.error.status = 401 THEN "unauthorized"
             ELSE IF reply.error.hasStatus /\ reply.error.status = 429 THEN "rate-limited"
             ELSE IF reply.error.hasStatus /\ reply.error.status >= 500
                    THEN "upstream-unavailable"
             ELSE "generic")

C3_Witness ==
  /\ ProcessQueryDone
  /\ reply.t = "reject"
  /\ reply.error.hasStatus
  /\ reply.error.status = 500
  /\ ret.t = "throw"
  /\ SubKind(ret.e) = "upstream-unavailable"

\* C4 (as claimed): the request of the remote call carries the topP,
\* frequencyPenalty and presencePenalty of the named profile of the query
\* type, and that profile's model, maxTokens and temperature unless the
\* environment overrides them.
C4_RequestUsesProfileOfQueryType ==
  (op = "processQuery" /\ Len(remoteCalls) > 0)
    => /\ remoteCalls[1].top_p = NamedProfile(getQueryType(args.query.s)).topP
       /\ remoteCalls[1].frequency_penalty
            = NamedProfile(getQueryType(args.query.s)).frequencyPenalty
       /\ remoteCalls[1].presence_penalty
            = NamedProfile(getQueryType(args.query.s)).presencePenalty
       /\ (~Truthy(env.OPENAI_MODEL)
             => remoteCalls[1].model = NamedProfile(getQueryType(args.query.s)).model)
       /\ (~Truthy(env.OPENAI_MAX_TOKENS)
             => remoteCalls[1].max_tokens
                  = NamedProfile(getQueryType(args.query.s)).maxTokens)
       /\ (~Truthy(env.OPENAI_TEMPERATURE)
             => remoteCalls[1].temperature
                  = NamedProfile(getQueryType(args.query.s)).temperature)

\* C5: the classifier returns one of the four types; a question with a
\* creative keyword is creative whatever else it contains; it returns fast
\* exactly when no family (creative, analytical, question) matches.
C5_ClassificationPriority ==
  op = "getQueryType"
    => /\ ret.v \in {"creative", "analytical", "quality", "fast"}
       /\ (HasKeyword(args.query, CreativeWords) => ret.v = "creative")
       /\ (ret.v = "fast"
             <=> (/\ ~HasKeyword(args.query, CreativeWords)
                  /\ ~HasKeyword(args.query, AnalyticalWords)
                  /\ ~LooksLikeQuestion(args.query)))

C5_Witness ==
  /\ op = "getQueryType"
  /\ HasKeyword(args.query, CreativeWords)
  /\ HasKeyword(args.query, AnalyticalWords)
  /\ includes(args.query, "?")
  /\ ret.v = "creative"

\* C6 (as claimed): a question with a '?' or a wh-word, without a creative
\* keyword and without an analysis word, is classified quality.
C6_QuestionsAreQuality ==
  (/\ op = "getQueryType"
   /\ LooksLikeQuestion(args.query)
   /\ ~HasKeyword(args.query, CreativeWords)
   /\ ~HasKeyword(args.query, {"analyze", "research", "data", "statistics", "fact",
                               "facts", "compare", "explain"}))
    => ret.v = "quality"

\* C7: a string query whose trimmed length is 1..1000 and which matches no
\* unsafe-content pattern, with the context absent or of the allowed shape,
\* is accepted, and the value returned is the trimmed query.
C7_ValidQueryReturnsTrimmed ==
  (/\ op = "validateQueryInput"
   /\ args.query.t = "string"
   /\ Len(trim(args.query.s)) >= 1
   /\ Len(trim(args.query.s)) <= 1000
   /\ ~containsHarmfulContent(args.query.s)
   /\ args.context \in GoodContexts)
    => ret = Return(trim(args.query.s))

C7_Witness ==
  /\ op = "validateQueryInput"
  /\ args.query.t = "string"
  /\ ret.t = "return"
  /\ Len(ret.v) = 1000
  /\ Len(args.query.s) > 1000

\* C8 (as claimed): a question whose length as submitted exceeds 1000
\* characters is rejected with a ValidationError.
C8_SubmittedLengthOver1000Rejected ==
  (op = "validateQueryInput" /\ args.query.t = "string" /\ Len(args.query.s) > 1000)
    => (ret.t = "throw" /\ ret.e.name = "ValidationError")

\* C8 (amended): a question whose length after trimming exceeds 1000
\* characters is rejected with a ValidationError.
C8_TrimmedLengthOver1000Rejected ==
  (op = "validateQueryInput" /\ args.query.t = "string"
     /\ Len(trim(args.query.s)) > 1000)
    => (ret.t = "throw" /\ ret.e.name = "ValidationError")

C8_Witness ==
  /\ op = "validateQueryInput"
  /\ args.query.t = "string"
  /\ Len(trim(args.query.s)) = 1001
  /\ ret.t = "throw"
  /\ ret.e.name = "ValidationError"

\* an inline event handler: on, one or more word characters, =
HasEventHandler(q) ==
  \E i \in 1..(Len(q) - 1) : \E j \in (i + 2)..(Len(q) - 1) :
     /\ SubSeq(q, i, i + 1) = "on"
     /\ \A k \in (i + 2)..j : IsWordAt(q, k)
     /\ Ch(q, j + 1) = "="

\* C9: a query that contains, in any letter case and anywhere, <script,
\* javascript:, an inline event handler, eval( or exec( is rejected with a
\* ValidationError and never returned.
C9_UnsafeQueryRejected ==
  (/\ op = "validateQueryInput"
   /\ args.query.t = "string"
   /\ \/ includes(toLowerCase(args.query.s), "<script")
      \/ includes(toLowerCase(args.query.s), "javascript:")
      \/ includes(toLowerCase(args.query.s), "eval(")
      \/ includes(toLowerCase(args.query.s), "exec(")
      \/ HasEventHandler(toLowerCase(args.query.s)))
    => (ret.t = "throw" /\ ret.e.name = "ValidationError")

C9_Witness ==
  /\ op = "validateQueryInput"
  /\ args.query.t = "string"
  /\ includes(args.query.s, "ab<Script")
  /\ ret.t = "throw"
  /\ ret.e.name = "ValidationError"

\* C10 (as claimed): when processQuery returns, the text is non-empty and is
\* the trimmed text of the remote reply.
C10_ReturnedTextNonEmpty ==
  (ProcessQueryDone /\ ret.t = "return")
    => /\ reply.t = "resolve"
       /\ reply.content.t = "string"
       /\ ret.v.text = trim(reply.content.s)
       /\ ret.v.text # ""

\* C11: a processQuery invocation sends at most one request to the remote
\* model, and exactly one once it has ended after a successful validation,
\* whether the remote call resolved or rejected.
C11_AtMostOneRemoteCall ==
  op = "processQuery"
    => /\ Len(remoteCalls) <= 1
       /\ (validation.t = "throw" => Len(remoteCalls) = 0)
       /\ ((pc \in {"await", "done"} /\ validation.t = "return")
             => Len(remoteCalls) = 1)

C11_Witness ==
  /\ ProcessQueryDone
  /\ reply.t = "reject"
  /\ ret.t = "throw"
  /\ Len(remoteCalls) = 1

\* C12: once the enrichment of an invocation has run, the invocation goes on
\* to the remote call; when ask fails or the search finds nothing, the text
\* handed on is the validated question itself, as it is over an index
\* without documents.
C12_EnrichmentNeverRaises ==
  (op = "processQuery" /\ validation.t = "return" /\ pc # "enrich")
    => /\ pc \in {"call", "await", "done"}
       /\ enrichWithNLWeb(<< >>, validation.v) = validation.v
       /\ ((\/ ask(contentIndex, [question |-> validation.v,
                                  maxResults |-> EnrichMaxResults]).t = "throw"
            \/ search(contentIndex, validation.v, EnrichMaxResults) = << >>)
             => enrichedQuery = validation.v)
       /\ (pc \in {"await", "done"}
             => (Len(remoteCalls) = 1 /\ remoteCalls[1].user = enrichedQuery))

C12_Witness ==
  /\ ProcessQueryDone
  /\ validation.t = "return"
  /\ search(contentIndex, validation.v, EnrichMaxResults) # << >>
  /\ ask(contentIndex, [question |-> validation.v,
                        maxResults |-> EnrichMaxResults]).t = "throw"
  /\ Len(remoteCalls) = 1
  /\ remoteCalls[1].user = validation.v
  /\ ret.t = "return"

\* a score is a number of [0, 1]
InUnitInterval(r) == r.d > 0 /\ r.n >= 0 /\ r.n <= r.d

\* C13: the relevance score of every source that ask returns, and of every
\* result of an MCP search or ask, is a number within [0, 1].
C13_RelevanceWithinUnitInterval ==
  /\ (op = "ask" /\ ret.t = "return")
       => \A k \in 1..Len(ret.v.sources) : InUnitInterval(ret.v.sources[k].relevanceScore)
  /\ (op = "handleMCP" /\ args.method = "search" /\ "result" \in ret.v.keys)
       => \A k \in 1..Len(ret.v.result) : InUnitInterval(ret.v.result[k].relevance)
  /\ (op = "handleMCP" /\ args.method = "ask" /\ "result" \in ret.v.keys)
       => \A k \in 1..Len(ret.v.result.sources) :
             InUnitInterval(ret.v.result.sources[k].relevanceScore)

C13_Witness ==
  /\ op = "ask"
  /\ ret.t = "return"
  /\ \E k \in 1..Len(ret.v.sources) : ret.v.sources[k].relevanceScore = RatioOne
  /\ \E k \in 1..Len(ret.v.sources) :
        /\ ret.v.sources[k].relevanceScore.n > 0
        /\ ret.v.sources[k].relevanceScore.n < ret.v.sources[k].relevanceScore.d
  /\ \E i \in 1..Len(contentIndex) :
        /\ contentIndex[i].content.title.t = "string"
        /\ \A k \in 1..Len(QueryWords(args.question)) :
              includes(toLowerCase(contentIndex[i].content.title.s),
                       QueryWords(args.question)[k])

\* C14 (as claimed): ask, and an MCP search, with the result cap k >= 0
\* return at most k sources.
C14_SourcesAtMostCap ==
  /\ (op = "ask" /\ ret.t = "return" /\ args.maxResults >= 0)
       => Len(ret.v.sources) <= args.maxResults
  /\ (op = "handleMCP" /\ args.method = "search" /\ "result" \in ret.v.keys
        /\ args.limit >= 0)
       => Len(ret.v.result) <= args.limit

\* the words of a text, separated by spaces
WordsOf(text) == {w \in {splitSpace(text)[k] : k \in 1..Len(splitSpace(text))} : w # ""}

\* C15 (as claimed): a search whose query has a word that is one of the title
\* words of an indexed document returns that document with a score > 0.
C15_TitleWordFindsDocument ==
  (op = "handleMCP" /\ args.method = "search" /\ Truthy(args.query))
    => \A i \in 1..Len(contentIndex) :
          (/\ contentIndex[i].content.title.t = "string"
           /\ WordsOf(args.query.s) \cap WordsOf(contentIndex[i].content.title.s) # {})
            => \E k \in 1..Len(ret.v.result) :
                  /\ ret.v.result[k].content = contentIndex[i].content
                  /\ RatioGreater(ret.v.result[k].relevance, RatioZero)

\* C16 (as claimed): with the Article "Test" ingested, ask "What is AI?"
\* returns a source titled "Test" with a nonzero relevance score.
C16_ArticleFoundByQuestion ==
  (/\ op = "ask"
   /\ args.question = "What is AI?"
   /\ args.maxResults = 0
   /\ \E i \in 1..Len(contentIndex) :
         /\ contentIndex[i].content.title = Str("Test")
         /\ contentIndex[i].content.content = Str("AI is useful.")
         /\ contentIndex[i].content.url = Str("https://x"))
    => /\ ret.t = "return"
       /\ \E k \in 1..Len(ret.v.sources) :
             /\ ret.v.sources[k].title = Str("Test")
             /\ RatioGreater(ret.v.sources[k].relevanceScore, RatioZero)

\* C17: ingestContent returns for every content string, and parseContent
\* with it; a content that JSON.parse rejects is stored with the raw string
\* as its content.
C17_IngestNeverRaises ==
  /\ op = "ingestContent"
       => /\ ret.t = "return"
          /\ ~JSONparse(args.content).ok
               => contentIndex[Len(contentIndex)].content.content = Str(args.content)
  /\ op = "parseContent"
       => /\ ret.t = "return"
          /\ ~JSONparse(args.content).ok => ret.v.content = Str(args.content)

C17_Witness ==
  /\ op = "ingestContent"
  /\ args.content = "{ invalid json }"
  /\ ret.t = "return"
  /\ Len(contentIndex) = Len(SeedIndex) + 1
  /\ contentIndex[Len(contentIndex)].content.content = Str("{ invalid json }")

\* the step is an ingestion: ingestContent, or the MCP method 'ingest' with
\* a content
IngestStep ==
  \/ op' = "ingestContent"
  \/ (op' = "handleMCP" /\ args'.method = "ingest" /\ Truthy(args'.content))

\* C18: an ingestion appends one document to the end of the index and
\* leaves the documents before it as they were, also when the index holds
\* the same content already.
C18_IngestAppendsOne ==
  [][IngestStep
       => /\ Len(contentIndex') = Len(contentIndex) + 1
          /\ SubSeq(contentIndex', 1, Len(contentIndex)) = contentIndex]_vars

C18_Witness ==
  /\ op \in {"ingestContent", "handleMCP"}
  /\ Len(contentIndex) = Len(SeedIndex) + 1
  /\ \E i \in 1..Len(SeedIndex) :
        contentIndex[i].content = contentIndex[Len(contentIndex)].content

\* C19 (as claimed): no two documents of the index have the same identifier,
\* and the store holds as many entries as the index.
C19_IdentifiersUnique ==
  /\ \A i, j \in 1..Len(contentIndex) :
        contentIndex[i].id = contentIndex[j].id => i = j
  /\ Cardinality(DOMAIN vectorStore) = Len(contentIndex)

\* C20: handleMCP returns a response for every request; an unknown method
\* gives an 'Unknown method' error, a missing question, content or query a
\* 'Missing required parameter' error; a response with an error has no
\* result and the index and the store are as before the request.
C20_MCPFailuresAreErrorValues ==
  [][op' = "handleMCP"
       => /\ ret'.t = "return"
          /\ (args'.method \notin {"ask", "ingest", "search", "health"}
                => /\ ret'.v.keys = {"error"}
                   /\ HasAt(ret'.v.error, 1, "Unknown method"))
          /\ (\/ (args'.method = "ask" /\ ~Truthy(args'.question))
              \/ (args'.method = "ingest" /\ ~Truthy(args'.content))
              \/ (args'.method = "search" /\ ~Truthy(args'.query)))
                => /\ ret'.v.keys = {"error"}
                   /\ HasAt(ret'.v.error, 1, "Missing required parameter")
          /\ ("error" \in ret'.v.keys
                => /\ "result" \notin ret'.v.keys
                   /\ contentIndex' = contentIndex
                   /\ vectorStore' = vectorStore)]_vars

C20_Witness ==
  /\ op = "handleMCP"
  /\ args.method = "ask"
  /\ args.question = Str("")
  /\ ret.t = "return"
  /\ ret.v = MCPError("Missing required parameter: question")
  /\ contentIndex = SeedIndex

\* C21 (as claimed): when the remote call of a request is rejected with the
\* status 401, queryHandler answers with the HTTP status 401, and when it is
\* rejected with the status 429, with the HTTP status 429.
C21_KeyAndRateLimitStatusPassedOn ==
  (/\ op = "queryHandler"
   /\ ret.t = "response"
   /\ reply.t = "reject"
   /\ reply.error.hasStatus
   /\ reply.error.status \in {401, 429})
    => ret.v.status = reply.error.status

\* C29: when queryHandler has called processQuery, which it does with the
\* string its own validation returned, the validation processQuery makes of
\* that string accepts it and returns the same string.
C29_ValidationIdempotent ==
  (/\ op = "queryHandler"
   /\ (pc = "enrich" \/ (pc = "done" /\ Len(remoteCalls) = 0)))
    => /\ validation.t = "return"
       /\ args.query = Str(validation.v)
       /\ validation
            = validateQueryInput([query |-> args.body.query, context |-> args.body.context])

C29_Witness ==
  /\ op = "queryHandler"
  /\ pc = "responded"
  /\ args.body.t = "object"
  /\ args.body.query.t = "string"
  /\ args.body.query.s # trim(args.body.query.s)
  /\ validation = Return(trim(args.body.query.s))
  /\ ret.t = "response"
  /\ ret.v.status = 200

\* C22: the index holds 3 documents after construction; every ingestion adds
\* one and no other step changes the number; getHealth reports that number
\* and leaves the index and the store as they were, as the MCP method
\* 'health' leaves them.
C22_HealthReportsSeedsPlusIngests ==
  /\ Len(contentIndex) = 3
  /\ [][/\ IngestStep => Len(contentIndex') = Len(contentIndex) + 1
        /\ ~IngestStep => Len(contentIndex') = Len(contentIndex)
        /\ op' = "getHealth"
             => /\ ret' = Return([status |-> "healthy",
                                  indexedContent |-> Len(contentIndex)])
                /\ nlweb' = nlweb
        /\ (op' = "handleMCP" /\ args'.method = "health")
             => nlweb' = nlweb]_vars

C22_Witness ==
  /\ op = "getHealth"
  /\ ret.t = "return"
  /\ ret.v.indexedContent = 4
  /\ Len(contentIndex) = 4

\* the score of the document at position i of the index for the query
ScoreAt(index, query, i) == calculateRelevance(query, index[i].content)

\* the positions of the documents whose score for the query is > 0
Matching(index, query) ==
  {i \in 1..Len(index) : RatioGreater(ScoreAt(index, query, i), RatioZero)}

\* the place of the matching document at position i in the order of
\* non-increasing score, documents of equal score in the order of ingestion
PlaceOf(index, query, i) ==
  1 + Cardinality({j \in Matching(index, query) :
                     \/ RatioGreater(ScoreAt(index, query, j), ScoreAt(index, query, i))
                     \/ (ScoreAt(index, query, j) = ScoreAt(index, query, i) /\ j < i)})

\* the matching documents with their scores in that order, cut to the first
\* maxResults
RankedMatches(index, query, maxResults) ==
  [r \in 1..(IF Cardinality(Matching(index, query)) < maxResults
               THEN Cardinality(Matching(index, query)) ELSE maxResults) |->
     [content |-> index[CHOOSE i \in Matching(index, query) :
                          PlaceOf(index, query, i) = r].content,
      relevance |-> ScoreAt(index, query,
                            CHOOSE i \in Matching(index, query) :
                              PlaceOf(index, query, i) = r)]]

\* C23 (as claimed): the search of an MCP request, made with the cap
\* limit || 5, returns the indexed documents of score > 0 in the order of
\* non-increasing score, equal scores in ingestion order, cut to the cap;
\* it returns nothing when no word of the query occurs in a document.
C23_SearchReturnsRankedMatches ==
  (op = "handleMCP" /\ args.method = "search" /\ Truthy(args.query))
    => /\ ret.v.keys = {"result"}
       /\ ret.v.result = RankedMatches(contentIndex, args.query.s,
                                       IF args.limit # 0 THEN args.limit ELSE 5)
       /\ Matching(contentIndex, args.query.s) = {} => ret.v.result = << >>

\* the number of the n words (with repetitions) that are substrings of text
Occurring(words, text) ==
  Cardinality({k \in 1..Len(words) : includes(text, words[k])})

\* min(1, (b + 0.5 * t) / n) as a fraction
ClaimedScore(b, t, n) ==
  IF 2 * b + t >= 2 * n THEN RatioOne ELSE Ratio(2 * b + t, 2 * n)

\* C24: every document an MCP search returns for a query with n >= 1
\* qualifying words has the relevance min(1, (b + 0.5 * t) / n), b the
\* number of the words in the lower-cased title + ' ' + body and t the
\* number of them in the lower-cased title.
C24_ScoreIsClampedWeightedShare ==
  (op = "handleMCP" /\ args.method = "search" /\ Truthy(args.query)
     /\ Len(QueryWords(args.query.s)) >= 1)
    => \A k \in 1..Len(ret.v.result) :
          ret.v.result[k].relevance
            = ClaimedScore(
                Occurring(QueryWords(args.query.s),
                          toLowerCase(StringOf(ret.v.result[k].content.title) \o " "
                                        \o StringOf(ret.v.result[k].content.content))),
                Occurring(QueryWords(args.query.s),
                          toLowerCase(StringOf(ret.v.result[k].content.title))),
                Len(QueryWords(args.query.s)))

C24_Witness ==
  /\ op = "handleMCP"
  /\ args.method = "search"
  /\ Truthy(args.query)
  /\ Len(QueryWords(args.query.s)) = 4
  /\ \E k \in 1..Len(ret.v.result) :
        /\ ret.v.result[k].relevance = Ratio(5, 8)
        /\ Occurring(QueryWords(args.query.s),
                     toLowerCase(StringOf(ret.v.result[k].content.title))) = 1
  /\ \E k \in 1..Len(ret.v.result) : ret.v.result[k].relevance = Ratio(1, 4)

\* C25: for a query without a qualifying word, the empty query included,
\* ask returns a response without sources, and the search and the ask of an
\* MCP request return no document, whatever the index holds.
C25_NoQualifyingWordNoMatch ==
  /\ (op = "ask" /\ Len(QueryWords(args.question)) = 0)
       => /\ ret.t = "return"
          /\ ret.v.sources = << >>
          /\ ret.v.metadata.totalSources = 0
  /\ (op = "handleMCP" /\ args.method = "search" /\ Truthy(args.query)
        /\ Len(QueryWords(args.query.s)) = 0)
       => ret.v = MCPResult(<< >>)
  /\ (op = "handleMCP" /\ args.method = "ask" /\ Truthy(args.question)
        /\ Len(QueryWords(args.question.s)) = 0)
       => /\ ret.v.keys = {"result"}
          /\ ret.v.result.sources = << >>

C25_Witness ==
  /\ op = "ask"
  /\ args.question \in {"", "is it ok"}
  /\ ret.t = "return"
  /\ ret.v.sources = << >>
  /\ \E i \in 1..Len(contentIndex) : contentIndex[i].content.title.t # "string"

\* the content is JSON of an object with the key '@type' or 'type'
HasTypeKey(content) ==
  /\ JSONparse(content).ok
  /\ JSONparse(content).isObject
  /\ \E i \in 1..Len(JSONparse(content).members) :
        JSONparse(content).members[i].k \in {"@type", "type"}

\* the content is JSON of an object whose '@type' or 'type' is truthy
HasTruthyType(content) ==
  /\ JSONparse(content).ok
  /\ \/ Truthy(JsonGet(JSONparse(content), "@type"))
     \/ Truthy(JsonGet(JSONparse(content), "type"))

\* the title and the URL of the document are those of the metadata, or the
\* defaults
FromMetadata(doc, metadata) ==
  /\ doc.title = Or(MetaGet(metadata, "title"), Str("Untitled"))
  /\ doc.url = Or(MetaGet(metadata, "url"), Str("unknown"))

\* the three shapes as claimed, the discriminator being the key
ShapeAsClaimed(content, metadata, doc) ==
  IF ~JSONparse(content).ok THEN doc.content = Str(content)
  ELSE IF HasTypeKey(content)
    THEN /\ doc.title = Or(Or(JsonGet(JSONparse(content), "name"),
                              JsonGet(JSONparse(content), "title")), Str("Untitled"))
         /\ Truthy(JsonGet(JSONparse(content), "description"))
              => doc.content = JsonGet(JSONparse(content), "description")
         /\ doc.structuredData = JsonValue(JSONparse(content))
  ELSE /\ doc.content = Str(JSONstringify(JSONparse(content)))
       /\ FromMetadata(doc, metadata)

\* the three shapes with a truthy discriminator, the text of a JSON string
\* and the raw text of null
ShapeAmended(content, metadata, doc) ==
  IF ~JSONparse(content).ok \/ JSONparse(content) = JsonParsed(TRUE, FALSE, Null, << >>)
    THEN /\ doc.content = Str(content)
         /\ FromMetadata(doc, metadata)
  ELSE IF HasTruthyType(content)
    THEN /\ doc.title = Or(Or(JsonGet(JSONparse(content), "name"),
                              JsonGet(JSONparse(content), "title")), Str("Untitled"))
         /\ doc.content = Or(JsonGet(JSONparse(content), "description"),
                             Str(JSONstringify(JSONparse(content))))
         /\ doc.structuredData = JsonValue(JSONparse(content))
  ELSE /\ doc.content = IF JSONparse(content).v.t = "string" /\ ~JSONparse(content).isObject
                          THEN JSONparse(content).v
                          ELSE Str(JSONstringify(JSONparse(content)))
       /\ doc.structuredData = JsonValue(JSONparse(content))
       /\ FromMetadata(doc, metadata)

\* C27 (as claimed): parseContent, and the document an ingestion stores, has
\* the structured shape for JSON with the key '@type' or 'type', the
\* stringified parsed value and the metadata's title and URL for other JSON,
\* and the raw string for a content that does not parse.
C27_ShapeByTypeKey ==
  /\ op = "parseContent" => ShapeAsClaimed(args.content, args.metadata, ret.v)
  /\ op = "ingestContent"
       => ShapeAsClaimed(args.content, args.metadata,
                         contentIndex[Len(contentIndex)].content)

\* C27 (amended): the structured shape is that of JSON whose '@type' or
\* 'type' is truthy, its body the description or else the stringified
\* object; other JSON is stored with the text of a JSON string or the
\* stringified value and the metadata's title and URL; the JSON null and a
\* content that does not parse are stored with the raw string.
C27_ShapeByTruthyType ==
  /\ op = "parseContent" => ShapeAmended(args.content, args.metadata, ret.v)
  /\ op = "ingestContent"
       => ShapeAmended(args.content, args.metadata,
                       contentIndex[Len(contentIndex)].content)

C27_Witness ==
  /\ op = "parseContent"
  /\ args.content = "{\"type\":\"\",\"title\":\"Test Document\",\"content\":\"text\"}"
  /\ HasTypeKey(args.content)
  /\ ~HasTruthyType(args.content)
  /\ ret.v.title = Str("Untitled")
  /\ ret.v.content = Str(args.content)

\* the "[title] snippet" entries of the documents a search returned
SourceEntries(results, query) ==
  JoinWith([k \in 1..Len(results) |->
              "[" \o StringOf(results[k].content.title) \o "] "
                  \o extractSnippet(StringOf(results[k].content.content), query)],
           "\n\n")

\* C28 (as claimed): the user turn of the request sent to the remote model
\* starts with the validated question; when the search of the index (cap 3)
\* returns documents it goes on with the introductory line and the entries
\* of these at most 3 documents, and otherwise it is the validated question.
C28_UserTurnIsQuestionPlusSources ==
  (op = "processQuery" /\ pc \in {"await", "done"} /\ validation.t = "return")
    => /\ Len(remoteCalls) = 1
       /\ HasAt(remoteCalls[1].user, 1, validation.v)
       /\ Len(search(contentIndex, validation.v, 3)) <= 3
       /\ remoteCalls[1].user
            = IF Len(search(contentIndex, validation.v, 3)) = 0
                THEN validation.v
                ELSE validation.v \o "\n\nRelevant web context from NLWeb:\n"
                       \o SourceEntries(search(contentIndex, validation.v, 3), validation.v)

\* the step is the call of ingestContent
IngestCalled == op = "none" /\ op' = "ingestContent"

\* C26: with ask invocations in flight, every call of ingestContent extends
\* the index by one document and no other step changes the index; the
\* search results an invocation holds are whole documents that were in the
\* index when it searched, and they stay as they were until it returns.
C26_NoLostIngestNoTornRead ==
  /\ [](\A c \in 1..Len(calls) :
          /\ calls[c].indexLength <= Len(contentIndex)
          /\ \A k \in 1..Len(calls[c].searchResults) :
                \E i \in 1..calls[c].indexLength :
                   calls[c].searchResults[k].content = contentIndex[i].content)
  /\ [][/\ IngestCalled
             => /\ Len(contentIndex') = Len(contentIndex) + 1
                /\ SubSeq(contentIndex', 1, Len(contentIndex)) = contentIndex
        /\ ~IngestCalled => contentIndex' = contentIndex
        /\ Len(calls') >= Len(calls)
             => \A c \in 1..Len(calls) :
                   /\ calls'[c].searchResults = calls[c].searchResults
                   /\ calls'[c].indexLength = calls[c].indexLength]_vars

C26_Witness ==
  /\ Len(contentIndex) = Len(SeedIndex) + 1
  /\ \E c, d \in 1..Len(calls) :
        /\ calls[c].pc = "done"
        /\ calls[c].out.t = "return"
        /\ calls[c].indexLength = Len(SeedIndex)
        /\ calls[d].indexLength = Len(contentIndex)
        /\ calls[c].question = calls[d].question
        /\ Len(calls[d].searchResults) = Len(calls[c].searchResults) + 1

\* C30 (as claimed): when the user message of a query is in the message
\* list, no reply to an earlier query is still waiting to be appended, and
\* the bot messages of earlier queries stand before it.
C30_ReplyBeforeLaterUserMessage ==
  \A j \in 1..Len(messages) :
     messages[j].kind = "user"
       => /\ \A k \in 1..Len(timers) : timers[k].n >= messages[j].n
          /\ \A i \in 1..Len(messages) :
                (messages[i].kind = "bot" /\ messages[i].n < messages[j].n) => i < j

=============================================================================
